---- MODULE Spec2Model ----
(***************************************************************************)
(* A model of the request pipeline of the insurance-claim adjudication     *)
(* service: QueryProcessor (src/services/query_processor.py),              *)
(* SemanticSearchService (src/services/semantic_search.py), DecisionEngine *)
(* (src/services/decision_engine.py) and the process_query handler         *)
(* (src/api/routes/queries.py).                                            *)
(*                                                                         *)
(* Texts are strings; Python's str and re operations are modelled          *)
(* character by character.  Floats that are sums of hundredths are kept as *)
(* integers in hundredths (0.6 is 60); money is kept in hundredths of a    *)
(* rupee; durations in months are kept in thirtieths of a month, so that   *)
(* days / 30.0 stays exact.                                                *)
(***************************************************************************)
EXTENDS Integers, Sequences, FiniteSets, TLC

VARIABLES
    pc,              \* position of the request in its handler
    query,           \* the raw query text of the request
    nlp,             \* QueryProcessor.nlp: the tagger's output for the query, or absent / raising
    parsed,          \* the ParsedQuery, or the exception parse_query raised
    entities,        \* the entity map handed to the ranker and the engine
    search_results,  \* the passage list handed to the engine
    decision,        \* the outcome of make_decision: the DecisionResult, or the exception that left it
    repeat,          \* the outcome of a second call of make_decision on the same inputs
    env,             \* the collaborators' behaviour during this request
    response         \* what process_query answers

vars == <<pc, query, nlp, parsed, entities, search_results, decision, repeat, env, response>>

(***************************************************************************)
(* Python evaluates an argument once, before the call, and a local once,   *)
(* at its assignment.  By(e, F) is F(e) with e evaluated once; the         *)
(* operators below take their arguments and bind their locals that way.    *)
(***************************************************************************)

By(e, F(_)) == CHOOSE r \in {F(v) : v \in {e}} : TRUE
By2(e1, e2, F(_, _)) == CHOOSE r \in {F(v1, v2) : v1 \in {e1}, v2 \in {e2}} : TRUE
By3(e1, e2, e3, F(_, _, _)) ==
    CHOOSE r \in {F(v1, v2, v3) : v1 \in {e1}, v2 \in {e2}, v3 \in {e3}} : TRUE
By4(e1, e2, e3, e4, F(_, _, _, _)) ==
    CHOOSE r \in {F(v1, v2, v3, v4) : v1 \in {e1}, v2 \in {e2}, v3 \in {e3}, v4 \in {e4}} : TRUE

(***************************************************************************)
(* Python str                                                              *)
(***************************************************************************)

\* s[i] of a Python str (1-based here)
Ch(s, i) == SubSeq(s, i, i)

UpperChars == "ABCDEFGHIJKLMNOPQRSTUVWXYZ"
LowerChars == "abcdefghijklmnopqrstuvwxyz"
DigitChars == "0123456789"

\* the 1-based index of character c in alphabet, 0 when absent
IndexIn(c_, alphabet_) ==
    By2(c_, alphabet_, LAMBDA c, alphabet :
        IF \E k \in 1..Len(alphabet) : Ch(alphabet, k) = c
        THEN CHOOSE k \in 1..Len(alphabet) : Ch(alphabet, k) = c
        ELSE 0)

Letters(alphabet) == {Ch(alphabet, k) : k \in 1..Len(alphabet)}
DigitValue == [c \in Letters(DigitChars) |-> IndexIn(c, DigitChars) - 1]
ToLower == [c \in Letters(UpperChars) |-> Ch(LowerChars, IndexIn(c, UpperChars))]
ToUpper == [c \in Letters(LowerChars) |-> Ch(UpperChars, IndexIn(c, LowerChars))]
WordChars == Letters(LowerChars) \cup Letters(UpperChars) \cup Letters(DigitChars) \cup {"_"}

IsDigit(c) == c \in DOMAIN DigitValue
SpaceChars == {" ", "\t", "\n", "\r"}
IsSpace(c) == c \in SpaceChars
IsWordChar(c) == c \in WordChars

LowerCh(c_) == By(c_, LAMBDA c : IF c \in DOMAIN ToLower THEN ToLower[c] ELSE c)
UpperCh(c_) == By(c_, LAMBDA c : IF c \in DOMAIN ToUpper THEN ToUpper[c] ELSE c)

\* the characters lo..hi of s, each mapped by f (ToLower / ToUpper / ...)
RECURSIVE MapRange(_, _, _, _)
MapRange(s, f, lo, hi) ==
    IF lo > hi THEN ""
    ELSE IF lo = hi THEN (IF Ch(s, lo) \in DOMAIN f THEN f[Ch(s, lo)] ELSE Ch(s, lo))
    ELSE MapRange(s, f, lo, (lo + hi) \div 2) \o MapRange(s, f, ((lo + hi) \div 2) + 1, hi)

\* str.lower()
Lower(s_) == By(s_, LAMBDA s : MapRange(s, ToLower, 1, Len(s)))

\* needle in hay
Contains(hay_, needle_) ==
    By2(hay_, needle_, LAMBDA hay, needle :
        \E i \in 1..(Len(hay) - Len(needle) + 1) : SubSeq(hay, i, i + Len(needle) - 1) = needle)

\* str.replace(old, new) for a one-character old
ReplaceCh(s_, old, new) == By2(s_, old :> new, LAMBDA s, f : MapRange(s, f, 1, Len(s)))

\* str.strip() of blanks
Strip(s_) ==
    By(s_, LAMBDA s :
        By({i \in 1..Len(s) : ~IsSpace(Ch(s, i))}, LAMBDA inked :
            IF inked = {} THEN ""
            ELSE SubSeq(s, CHOOSE i \in inked : \A j \in inked : i <= j,
                           CHOOSE i \in inked : \A j \in inked : i >= j)))

\* int(s) for a string of digits
RECURSIVE ParseInt(_)
ParseInt(s_) ==
    By(s_, LAMBDA s :
        IF s = "" THEN 0
        ELSE 10 * ParseInt(SubSeq(s, 1, Len(s) - 1)) + DigitValue[Ch(s, Len(s))])

\* str(n) for a natural number
RECURSIVE IntToStr(_)
IntToStr(n_) ==
    By(n_, LAMBDA n :
        IF n < 10 THEN Ch(DigitChars, n + 1)
        ELSE IntToStr(n \div 10) \o Ch(DigitChars, (n % 10) + 1))

\* str.title() of a lower-case word
Title(s_) == By(s_, LAMBDA s : IF s = "" THEN "" ELSE UpperCh(Ch(s, 1)) \o SubSeq(s, 2, Len(s)))

\* s[:n]
Prefix(s_, n_) == By2(s_, n_, LAMBDA s, n : SubSeq(s, 1, IF Len(s) < n THEN Len(s) ELSE n))

(***************************************************************************)
(* Python re: a backtracking matcher over the pattern's syntax tree.       *)
(* A match state is [pos, cs, ce]: the next position and the span of       *)
(* capture group 1 (0, 0 while unset).  Match returns every way to match,  *)
(* in the order the backtracking engine tries them, so its head is         *)
(* re's match.                                                             *)
(***************************************************************************)

\* the least member of a non-empty set of integers, and its k-th smallest
Least(S) == CHOOSE x \in S : \A y \in S : x <= y
Nth(S, k) == CHOOSE x \in S : Cardinality({y \in S : y < x}) = k - 1

\* a sequence with every element evaluated
Listed(seq) == seq \o <<>>

\* the members of a set of integers in ascending order
Ascending(S) == Listed([k \in 1..Cardinality(S) |-> Nth(S, k)])

\* the concatenation of the sequences seqs[lo..hi]
RECURSIVE Flatten(_, _, _)
Flatten(seqs, lo, hi) ==
    IF lo = hi THEN seqs[lo]
    ELSE IF lo > hi THEN <<>>
    ELSE Flatten(seqs, lo, (lo + hi) \div 2) \o Flatten(seqs, ((lo + hi) \div 2) + 1, hi)

\* the concatenation of the strings strs[lo..hi]
RECURSIVE Join(_, _, _)
Join(strs, lo, hi) ==
    IF lo = hi THEN strs[lo]
    ELSE IF lo > hi THEN ""
    ELSE Join(strs, lo, (lo + hi) \div 2) \o Join(strs, ((lo + hi) \div 2) + 1, hi)

\* A pattern carries, as a compiled pattern does, whether it matches the
\* empty string (nullable) and the characters a non-empty match can start
\* with (first): a match is only tried where it can start.
Lit(s) == [t |-> "lit", s |-> s, nullable |-> s = "", first |-> IF s = "" THEN {} ELSE {Ch(s, 1)}]
Digit == [t |-> "cls", chars |-> DOMAIN DigitValue, nullable |-> FALSE, first |-> DOMAIN DigitValue]
Space == [t |-> "cls", chars |-> SpaceChars, nullable |-> FALSE, first |-> SpaceChars]
WordB == [t |-> "wb", nullable |-> TRUE, first |-> {}]
\* the two ends of capture group 1
GrpOpen == [t |-> "open", nullable |-> TRUE, first |-> {}]
GrpClose == [t |-> "close", nullable |-> TRUE, first |-> {}]

\* a concatenation within a concatenation is spliced in: (?:ab)c is abc
Cat(xs_) ==
    By(Flatten([k \in 1..Len(xs_) |-> IF xs_[k].t = "seq" THEN xs_[k].xs ELSE <<xs_[k]>>], 1, Len(xs_)),
       LAMBDA xs :
        [t |-> "seq", xs |-> xs,
         nullable |-> \A k \in 1..Len(xs) : xs[k].nullable,
         first |-> UNION {xs[k].first : k \in {n \in 1..Len(xs) : \A j \in 1..(n - 1) : xs[j].nullable}}])
Alt(xs_) ==
    By(xs_, LAMBDA xs :
        [t |-> "alt", xs |-> xs,
         nullable |-> \E k \in 1..Len(xs) : xs[k].nullable,
         first |-> UNION {xs[k].first : k \in 1..Len(xs)}])
\* greedy repetition lo..hi times; hi = -1 is unbounded
Rep(r_, lo, hi) ==
    By(r_, LAMBDA r :
        [t |-> "rep", r |-> r, lo |-> lo, hi |-> hi, nullable |-> lo = 0 \/ r.nullable, first |-> r.first])
Star(r) == Rep(r, 0, -1)
Plus(r) == Rep(r, 1, -1)
Opt(r) == Rep(r, 0, 1)
Grp(r) == Cat(<<GrpOpen, r, GrpClose>>)

\* \b at position i of s
AtWordBoundary(s, i) ==
    (i > 1 /\ IsWordChar(Ch(s, i - 1))) # (i <= Len(s) /\ IsWordChar(Ch(s, i)))

RECURSIVE Match(_, _, _), MatchCat(_, _, _, _, _), MatchRep(_, _, _, _)

\* the elements xs[lo..hi] of a concatenation, from each of the states sts, in
\* the order the engine tries them
MatchCat(xs, lo, hi, s, sts) ==
    IF lo = hi
    THEN (IF Len(sts) = 1 THEN Match(xs[lo], s, sts[1])
          ELSE Flatten([k \in 1..Len(sts) |-> Match(xs[lo], s, sts[k])], 1, Len(sts)))
    ELSE CHOOSE out \in {IF half = <<>> THEN <<>> ELSE MatchCat(xs, ((lo + hi) \div 2) + 1, hi, s, half) :
                            half \in {MatchCat(xs, lo, (lo + hi) \div 2, s, sts)}} : TRUE

\* n iterations of r.r are done: greedy, one more iteration is tried before
\* the repetition ends
MatchRep(r, n, s, st) ==
    (IF r.hi = -1 \/ n < r.hi
     THEN CHOOSE out \in {Flatten([k \in 1..Len(once) |-> MatchRep(r, n + 1, s, once[k])], 1, Len(once)) :
                            once \in {SelectSeq(Match(r.r, s, st), LAMBDA x : x.pos > st.pos)}} : TRUE
     ELSE <<>>)
    \o (IF n >= r.lo THEN <<st>> ELSE <<>>)

\* the length, hi at most, of the run of characters of chars that starts at
\* position i
Run(s, chars, i, hi) ==
    Least({q \in 0..(Len(s) - i + 1) : q = hi \/ i + q > Len(s) \/ Ch(s, i + q) \notin chars})

\* the repetition of a character class: the longest run first, then one
\* character less at a time
MatchRun(r, s, st) ==
    CHOOSE out \in {Listed([k \in 1..(most - r.lo + 1) |-> [st EXCEPT !.pos = @ + most - k + 1]]) :
                       most \in {Run(s, r.r.chars, st.pos, r.hi)}} : TRUE

\* A match state is [pos, cs, ce]: the next position and the span of capture
\* group 1 (0, 0 while unset).  Match returns every way to match, in the order
\* the backtracking engine tries them, so its head is re's match.
Match(r, s, st) ==
    CASE r.t = "lit" ->
           IF st.pos + Len(r.s) - 1 <= Len(s) /\ SubSeq(s, st.pos, st.pos + Len(r.s) - 1) = r.s
           THEN <<[st EXCEPT !.pos = @ + Len(r.s)]>> ELSE <<>>
      [] r.t = "cls" ->
           IF st.pos <= Len(s) /\ Ch(s, st.pos) \in r.chars
           THEN <<[st EXCEPT !.pos = @ + 1]>> ELSE <<>>
      [] r.t = "wb" -> IF AtWordBoundary(s, st.pos) THEN <<st>> ELSE <<>>
      [] r.t = "open" -> <<[st EXCEPT !.cs = st.pos, !.ce = st.pos]>>
      [] r.t = "close" -> <<[st EXCEPT !.ce = st.pos]>>
      [] r.t = "seq" -> MatchCat(r.xs, 1, Len(r.xs), s, <<st>>)
      [] r.t = "alt" -> Flatten([n \in 1..Len(r.xs) |-> Match(r.xs[n], s, st)], 1, Len(r.xs))
      [] r.t = "rep" -> IF r.r.t = "cls" THEN MatchRun(r, s, st) ELSE MatchRep(r, 0, s, st)

NoMatch == [found |-> FALSE]

\* the match of r in s that starts at position j, as
\* [found, start, end, g0, g1] with g0 = group(0) and g1 = group(1)
MatchAt(r, s, j) ==
    CHOOSE out \in {IF ms = <<>> THEN NoMatch
                    ELSE [found |-> TRUE, start |-> j, end |-> ms[1].pos,
                          g0 |-> SubSeq(s, j, ms[1].pos - 1),
                          g1 |-> IF ms[1].cs = 0 THEN "" ELSE SubSeq(s, ms[1].cs, ms[1].ce - 1)] :
                       ms \in {Match(r, s, [pos |-> j, cs |-> 0, ce |-> 0])}} : TRUE

CanStart(r, s, j) == r.nullable \/ (j <= Len(s) /\ Ch(s, j) \in r.first)

\* the match of r, if any, at each position 1..Len(s) + 1 of s
Matches(r, s) ==
    Listed([j \in 1..(Len(s) + 1) |-> IF CanStart(r, s, j) THEN MatchAt(r, s, j) ELSE NoMatch])

\* re.search(r, s): the leftmost match
Search(r, s) ==
    CHOOSE out \in {IF starts = {} THEN NoMatch ELSE MatchAt(r, s, Least(starts)) :
                       starts \in {{j \in 1..(Len(s) + 1) :
                                       CanStart(r, s, j) /\ Match(r, s, [pos |-> j, cs |-> 0, ce |-> 0]) # <<>>}}} : TRUE

\* re.findall and re.sub scan the text from left to right: the next match is
\* the first that starts at or after the end of the one before (one further
\* after an empty match).  Len(m) + 1 stands for "no further match".
NextMatch(m, i) == Least({j \in i..Len(m) : m[j].found} \cup {Len(m) + 1})

\* the start of the match that follows the match that starts at j
Hops(m) ==
    Listed([j \in 1..(Len(m) + 1) |->
                IF j > Len(m) \/ ~m[j].found THEN Len(m) + 1
                ELSE NextMatch(m, IF m[j].end > j THEN m[j].end ELSE j + 1)])

\* jump is a number of hops and reached holds the starts that fewer hops
\* lead to; the number doubles until no further start is reached
RECURSIVE Orbit(_, _)
Orbit(jump_, reached_) ==
    CHOOSE out \in {IF {jump[i] : i \in reached} \subseteq reached THEN reached
                    ELSE Orbit(Listed([i \in 1..Len(jump) |-> jump[jump[i]]]),
                               reached \cup {jump[i] : i \in reached}) :
                       jump \in {jump_}, reached \in {reached_}} : TRUE

\* the starts of the non-overlapping matches, left to right
Scanned(m) == Ascending(Orbit(Hops(m), {NextMatch(m, 1)}) \ {Len(m) + 1})

\* re.findall(r, s) for a pattern with one group: the group's text of every
\* non-overlapping match, left to right
FindAll(r, s) ==
    CHOOSE out \in {Listed([k \in 1..Len(at) |-> at[k].g1]) :
                       at \in {By(Matches(r, s), LAMBDA m : Listed([k \in 1..Len(Scanned(m)) |-> m[Scanned(m)[k]]]))}} : TRUE

\* re.sub(r, repl, s): the text between the matches is kept
Sub(r, repl, s) ==
    By(Matches(r, s), LAMBDA m :
        By(Scanned(m), LAMBDA at :
            Join([k \in 1..Len(at) |->
                    SubSeq(s, IF k = 1 THEN 1 ELSE m[at[k - 1]].end, at[k] - 1) \o repl], 1, Len(at))
            \o SubSeq(s, IF at = <<>> THEN 1 ELSE m[at[Len(at)]].end, Len(s))))

(***************************************************************************)
(* Python values                                                           *)
(***************************************************************************)

None == [some |-> FALSE]
Some(v) == [some |-> TRUE, v |-> v]

\* the empty dict, and a dict with one key
EmptyDict == [k \in {} |-> 0]
Entry(k, v) == k :> v
HasKey(d, k) == k \in DOMAIN d

\* the outcome of a call: a value, or the exception it raised
Returned(v) == [raised |-> FALSE, value |-> v]
Raised(msg) == [raised |-> TRUE, error |-> msg]

Min(a_, b_) == By2(a_, b_, LAMBDA a, b : IF a < b THEN a ELSE b)

(***************************************************************************)
(* QueryProcessor                                                          *)
(***************************************************************************)

\* 'year|yr|y\.o\.?|years?' and its like
YearWord == Alt(<<Lit("year"), Lit("yr"), Cat(<<Lit("y.o"), Opt(Lit("."))>>), Cat(<<Lit("year"), Opt(Lit("s"))>>)>>)

\* self.patterns; every pattern is used with re.IGNORECASE on the normalized
\* (lower-cased) query, so the letters M and F are written in lower case
AgePatterns == <<
    Cat(<<Grp(Rep(Digit, 1, 2)), Star(Space), YearWord, Star(Space), Lit("old")>>),
    Cat(<<Lit("age"), Star(Space), Opt(Cat(<<Lit("of"), Star(Space)>>)), Grp(Rep(Digit, 1, 2))>>),
    Cat(<<Grp(Rep(Digit, 1, 2)), Star(Space), Alt(<<Lit("male"), Lit("female"), Lit("m"), Lit("f")>>)>>) >>

GenderPatterns == <<
    Cat(<<WordB, Alt(<<Lit("male"), Lit("man"), Lit("m")>>), WordB>>),
    Cat(<<WordB, Alt(<<Lit("female"), Lit("woman"), Lit("f")>>), WordB>>) >>

PolicyDurationPatterns == <<
    Cat(<<Grp(Plus(Digit)), Star(Space), Alt(<<Lit("month"), Lit("mon"), Cat(<<Lit("month"), Opt(Lit("s"))>>)>>),
          Star(Space), Opt(Cat(<<Lit("old"), Star(Space)>>)), Lit("policy")>>),
    Cat(<<Grp(Plus(Digit)), Star(Space), Alt(<<Lit("year"), Lit("yr"), Cat(<<Lit("year"), Opt(Lit("s"))>>)>>),
          Star(Space), Opt(Cat(<<Lit("old"), Star(Space)>>)), Lit("policy")>>),
    Cat(<<Lit("policy"), Star(Space), Opt(Cat(<<Lit("of"), Star(Space)>>)), Grp(Plus(Digit)), Star(Space),
          Alt(<<Lit("month"), Lit("year")>>)>>) >>

\* \d+(?:,\d+)*
GroupedDigits == Cat(<<Plus(Digit), Star(Cat(<<Lit(","), Plus(Digit)>>))>>)

AmountPatterns == <<
    Cat(<<Lit("₹"), Star(Space), Grp(GroupedDigits)>>),
    Cat(<<Lit("rs"), Opt(Lit(".")), Star(Space), Grp(GroupedDigits)>>),
    Cat(<<Lit("rupee"), Opt(Lit("s")), Star(Space), Grp(GroupedDigits)>>) >>

abbreviations == <<
    <<"yrs", "years">>, <<"yr", "year">>, <<"mos", "months">>, <<"mo", "month">>,
    <<"hrs", "hours">>, <<"hr", "hour">>, <<"mins", "minutes">>, <<"min", "minute">> >>

RECURSIVE ExpandAbbreviations(_, _)
ExpandAbbreviations(q_, k_) ==
    By2(q_, k_, LAMBDA q, k :
        IF k > Len(abbreviations) THEN q
        ELSE ExpandAbbreviations(
                Sub(Cat(<<WordB, Lit(abbreviations[k][1]), WordB>>), abbreviations[k][2], q), k + 1))

_normalize_query(q) ==
    ExpandAbbreviations(Strip(Sub(Plus(Space), " ", Lower(q))), 1)

MinAge == 0
MaxAge == 120

\* the first pattern, from the k-th on, that matches and whose number is in range
RECURSIVE ExtractAgeFrom(_, _)
ExtractAgeFrom(q, k_) ==
    By(k_, LAMBDA k :
        IF k > Len(AgePatterns) THEN None
        ELSE By(Search(AgePatterns[k], q), LAMBDA match :
                By(IF match.found THEN ParseInt(match.g1) ELSE 0, LAMBDA age :
                    IF match.found /\ MinAge <= age /\ age <= MaxAge
                    THEN Some(age)
                    ELSE ExtractAgeFrom(q, k + 1))))

_extract_age(q_) == By(q_, LAMBDA q : ExtractAgeFrom(q, 1))

GenderOf(gender_text_) ==
    By(gender_text_, LAMBDA gender_text :
        IF gender_text \in {"male", "man", "m"} THEN Some("male")
        ELSE IF gender_text \in {"female", "woman", "f"} THEN Some("female")
        ELSE None)

RECURSIVE ExtractGenderFrom(_, _)
ExtractGenderFrom(q, k_) ==
    By(k_, LAMBDA k :
        IF k > Len(GenderPatterns) THEN None
        ELSE By(Search(GenderPatterns[k], q), LAMBDA match :
                By(IF match.found THEN GenderOf(Lower(match.g0)) ELSE None, LAMBDA gender :
                    IF gender.some THEN gender ELSE ExtractGenderFrom(q, k + 1))))

_extract_gender(q_) == By(q_, LAMBDA q : ExtractGenderFrom(q, 1))

medical_terms == <<
    "knee surgery", "heart surgery", "brain surgery", "eye surgery",
    "cancer", "diabetes", "hypertension", "surgery", "operation",
    "procedure", "treatment", "transplant", "dialysis", "chemotherapy",
    "radiotherapy", "hospitalization", "admission" >>

\* mutant: the last of the longest
RECURSIVE LongestOf_LastOfTies(_, _, _)
LongestOf_LastOfTies(xs, k_, best_) ==
    By2(k_, best_, LAMBDA k, best :
        IF k > Len(xs) THEN best
        ELSE LongestOf_LastOfTies(xs, k + 1, IF Len(xs[k]) >= Len(best) THEN xs[k] ELSE best))

\* max(found, key=len): the first of the longest
RECURSIVE LongestOf(_, _, _)
LongestOf(xs, k_, best_) ==
    By2(k_, best_, LAMBDA k, best :
        IF k > Len(xs) THEN best
        ELSE LongestOf(xs, k + 1, IF Len(xs[k]) > Len(best) THEN xs[k] ELSE best))

_extract_procedure(q_) ==
    By(Lower(q_), LAMBDA query_lower :
        By(SelectSeq(medical_terms, LAMBDA term : Contains(query_lower, Lower(term))), LAMBDA found_procedures :
            IF found_procedures # <<>>
            THEN Some(LongestOf(found_procedures, 2, found_procedures[1]))
            ELSE None))

cities == <<
    "mumbai", "delhi", "bangalore", "chennai", "kolkata", "hyderabad",
    "pune", "ahmedabad", "surat", "jaipur", "lucknow", "kanpur",
    "nagpur", "indore", "thane", "bhopal", "visakhapatnam", "pimpri",
    "patna", "vadodara", "ghaziabad", "ludhiana", "coimbatore" >>

\* self.nlp is set when the tagger's model was loaded
NlpLoaded(tagger) == tagger.kind # "absent"

\* spaCy's Language.max_length is 1,000,000 characters; the model scales it down
NlpMaxLength == 100

\* self.nlp(query) raises ValueError on a text longer than nlp.max_length
NlpRaises(tagger, q) == NlpLoaded(tagger) /\ Len(q) > NlpMaxLength

\* doc.ents of self.nlp(query), with the given label
EntsOf(tagger, label) ==
    By(SelectSeq(tagger.ents, LAMBDA ent : ent.label = label), LAMBDA hit :
        [k \in 1..Len(hit) |-> hit[k].text])

\* ent.text of the first GPE entity, if any
FirstGPE(tagger) ==
    By(EntsOf(tagger, "GPE"), LAMBDA places : IF places # <<>> THEN Some(places[1]) ELSE None)

\* returns Returned(None or Some(city)), or Raised when self.nlp(query) raises
_extract_location(q_, tagger_) ==
    By3(q_, Lower(q_), tagger_, LAMBDA q, query_lower, tagger :
        By(SelectSeq(cities, LAMBDA city : Contains(query_lower, city)), LAMBDA hits :
            IF hits # <<>> THEN Returned(Some(Title(hits[1])))
            ELSE IF NlpLoaded(tagger)
            THEN (IF NlpRaises(tagger, q) THEN Raised("[E088] Text exceeds maximum length")
                  ELSE Returned(FirstGPE(tagger)))
            ELSE Returned(None)))

\* the unit is read off the matched text
DurationOf(match_) ==
    By(match_, LAMBDA match :
        By2(Lower(match.g0), ParseInt(match.g1), LAMBDA match_text, duration :
            IF Contains(match_text, "year") \/ Contains(match_text, "yr")
            THEN [duration |-> duration, unit |-> "years", months |-> duration * 12]
            ELSE [duration |-> duration, unit |-> "months", months |-> duration]))

RECURSIVE ExtractPolicyDurationFrom(_, _)
ExtractPolicyDurationFrom(q, k_) ==
    By(k_, LAMBDA k :
        IF k > Len(PolicyDurationPatterns) THEN None
        ELSE By(Search(PolicyDurationPatterns[k], q), LAMBDA match :
                IF match.found THEN Some(DurationOf(match))
                ELSE ExtractPolicyDurationFrom(q, k + 1)))

_extract_policy_duration(q_) == By(q_, LAMBDA q : ExtractPolicyDurationFrom(q, 1))

\* f"{n:,}" of a natural number
RECURSIVE Thousands(_)
Thousands(n_) ==
    By(n_, LAMBDA n :
        IF n < 1000 THEN IntToStr(n)
        ELSE Thousands(n \div 1000) \o ","
             \o (IF n % 1000 < 10 THEN "00" ELSE IF n % 1000 < 100 THEN "0" ELSE "") \o IntToStr(n % 1000))

\* money is kept in hundredths of a rupee
Rupees(n) == n * 100

RECURSIVE ExtractAmountFrom(_, _)
ExtractAmountFrom(q, k_) ==
    By(k_, LAMBDA k :
        IF k > Len(AmountPatterns) THEN None
        ELSE By(Search(AmountPatterns[k], q), LAMBDA match :
                IF match.found
                THEN By(ParseInt(ReplaceCh(match.g1, ",", "")), LAMBDA amount :
                        Some([amount |-> Rupees(amount), currency |-> "INR",
                              formatted |-> "₹" \o Thousands(amount)]))
                ELSE ExtractAmountFrom(q, k + 1)))

_extract_amount(q_) == By(q_, LAMBDA q : ExtractAmountFrom(q, 1))

\* the entry of the auxiliary list, when the tagger found entities of the label
SpacyList(tagger, label, key) ==
    By(EntsOf(tagger, label), LAMBDA texts : IF texts # <<>> THEN Entry(key, texts) ELSE EmptyDict)

\* {} when self.nlp(query) raises: the exception is logged and swallowed
_extract_spacy_entities(q, tagger) ==
    IF NlpRaises(tagger, q) THEN EmptyDict
    ELSE SpacyList(tagger, "DATE", "dates") @@ SpacyList(tagger, "ORG", "organizations")
         @@ SpacyList(tagger, "MONEY", "money_mentions")

\* bool(x) of an Optional[int]: None and 0 are false
TruthyInt(x) == x.some /\ x.v # 0

\* Returned(entity map), or Raised when the location step raised
_extract_entities(q_, tagger_) ==
    By2(q_, tagger_, LAMBDA q, tagger :
        By([age |-> _extract_age(q),
            gender |-> _extract_gender(q),
            procedure |-> _extract_procedure(q),
            location |-> _extract_location(q, tagger),
            policy_duration |-> _extract_policy_duration(q),
            amount |-> _extract_amount(q)], LAMBDA found :
            IF found.location.raised THEN found.location
            ELSE Returned(
                 \* entities.update(spacy) comes last and overrides
                 (IF NlpLoaded(tagger) THEN _extract_spacy_entities(q, tagger) ELSE EmptyDict)
                 @@ (IF TruthyInt(found.age) THEN Entry("age", found.age.v) ELSE EmptyDict)
                 @@ (IF found.gender.some THEN Entry("gender", found.gender.v) ELSE EmptyDict)
                 @@ (IF found.procedure.some THEN Entry("procedure", found.procedure.v) ELSE EmptyDict)
                 @@ (IF found.location.value.some /\ found.location.value.v # ""
                     THEN Entry("location", found.location.value.v) ELSE EmptyDict)
                 @@ (IF found.policy_duration.some THEN Entry("policy_duration", found.policy_duration.v)
                     ELSE EmptyDict)
                 @@ (IF found.amount.some THEN Entry("amount", found.amount.v) ELSE EmptyDict))))

intent_keywords == <<
    [intent |-> "coverage_verification", keywords |-> <<"cover", "coverage", "eligible", "include", "apply">>],
    [intent |-> "claim_processing", keywords |-> <<"claim", "benefit", "payout", "reimburse", "amount">>],
    [intent |-> "exclusion_check", keywords |-> <<"exclusion", "exclude", "not covered", "exception">>],
    [intent |-> "waiting_period_check", keywords |-> <<"waiting period", "wait", "when", "delay">>],
    [intent |-> "premium_inquiry", keywords |-> <<"premium", "cost", "price", "fee", "charge">>],
    [intent |-> "policy_details", keywords |-> <<"policy", "terms", "condition", "detail">>],
    [intent |-> "general_inquiry", keywords |-> <<"what", "how", "when", "where", "why">>] >>

\* the number of terms of the list that occur in the text
Hits(terms, text_) == By(text_, LAMBDA text : Len(SelectSeq(terms, LAMBDA term : Contains(text, term))))

\* intent_scores, in declaration order
IntentScore(q) ==
    By(Lower(q), LAMBDA query_lower :
        [k \in 1..Len(intent_keywords) |-> Hits(intent_keywords[k].keywords, query_lower)])

\* mutant: the last, in declaration order, of the intents with the highest
\* positive score
RECURSIVE BestIntentFrom_LastOfTies(_, _, _)
BestIntentFrom_LastOfTies(scores, k_, best_) ==
    By2(k_, best_, LAMBDA k, best :
        IF k > Len(scores) THEN best
        ELSE BestIntentFrom_LastOfTies(scores, k + 1,
                IF scores[k] > 0 /\ (best = 0 \/ scores[k] >= scores[best]) THEN k ELSE best))

\* max(intent_scores, key=intent_scores.get): the first, in declaration order,
\* of the intents with the highest positive score
RECURSIVE BestIntentFrom(_, _, _)
BestIntentFrom(scores, k_, best_) ==
    By2(k_, best_, LAMBDA k, best :
        IF k > Len(scores) THEN best
        ELSE BestIntentFrom(scores, k + 1,
                IF scores[k] > 0 /\ (best = 0 \/ scores[k] > scores[best]) THEN k ELSE best))

_classify_intent(q) ==
    By(IntentScore(q), LAMBDA intent_scores :
        By(BestIntentFrom(intent_scores, 1, 0), LAMBDA best :
            IF best = 0 THEN "general_inquiry" ELSE intent_keywords[best].intent))

confidence_medical_terms == <<"surgery", "treatment", "condition", "procedure", "hospital">>
insurance_terms == <<"policy", "claim", "coverage", "benefit", "premium">>

\* mutant: the sum is not clamped by min(..., 1.0)
_calculate_confidence_Unclamped(q_, ents) ==
    By2(q_, Lower(q_), LAMBDA q, query_lower :
        50 + Cardinality(DOMAIN ents) * 10
           + 5 * Hits(confidence_medical_terms, query_lower) + 5 * Hits(insurance_terms, query_lower)
           + (IF Search(Plus(Digit), q).found THEN 10 ELSE 0) + (IF Contains(q, ",") THEN 10 ELSE 0))

\* in hundredths; round(x, 2) changes nothing on a whole number of hundredths
_calculate_confidence(q_, ents) ==
    By2(q_, Lower(q_), LAMBDA q, query_lower :
        LET base_score == 50
            entity_bonus == Cardinality(DOMAIN ents) * 10
            medical_bonus == 5 * Hits(confidence_medical_terms, query_lower)
            insurance_bonus == 5 * Hits(insurance_terms, query_lower)
            structure_bonus == (IF Search(Plus(Digit), q).found THEN 10 ELSE 0)
                               + (IF Contains(q, ",") THEN 10 ELSE 0)
        IN Min(base_score + entity_bonus + medical_bonus + insurance_bonus + structure_bonus, 100))

\* Returned(ParsedQuery), or Raised when entity extraction raised
parse_query(q_, tagger_) ==
    By3(q_, tagger_, _normalize_query(q_), LAMBDA q, tagger, normalized_query :
        By(_extract_entities(normalized_query, tagger), LAMBDA ents :
            IF ents.raised THEN ents
            ELSE Returned([original_query |-> q,
                           entities |-> ents.value,
                           intent |-> _classify_intent(normalized_query),
                           confidence |-> _calculate_confidence(normalized_query, ents.value),
                           normalized_query |-> normalized_query])))

(***************************************************************************)
(* DecisionEngine                                                          *)
(* A passage is a record with the keys of the ranker's result dicts:       *)
(* text, section_type, filename, similarity_score (in hundredths).  A      *)
(* record that lacks the key text makes result['text'] raise KeyError.     *)
(***************************************************************************)

\* d.get(k, default)
GetOr(d, k, default) == IF k \in DOMAIN d THEN d[k] ELSE default

\* str(KeyError('text'))
KeyErrorText == "'text'"

\* entities.get('procedure', '').lower() if entities.get('procedure') else ''
ProcedureOf(ents) ==
    IF HasKey(ents, "procedure") /\ ents["procedure"] # "" THEN Lower(ents["procedure"]) ELSE ""

\* text[:200] + '...'
ClauseLimit == 200
Excerpt(text) == Prefix(text, ClauseLimit) \o "..."

\* str.replace(old, new)
Replace(s, old, new) == Sub(Lit(old), new, s)

\* mutant: the procedure is looked for verbatim only
_get_procedure_variations_Verbatim(procedure_) == <<procedure_>>

_get_procedure_variations(procedure_) ==
    By(procedure_, LAMBDA procedure :
        <<procedure>>
        \o (IF Contains(procedure, "surgery")
            THEN <<Replace(procedure, "surgery", "operation"), Replace(procedure, "surgery", "procedure")>>
            ELSE <<>>)
        \o (IF Contains(procedure, "knee") THEN <<"knee replacement", "knee arthroscopy", "knee joint">> ELSE <<>>)
        \o (IF Contains(procedure, "heart") THEN <<"cardiac", "cardiovascular", "coronary">> ELSE <<>>))

\* the loop of _analyze_policy_compliance from the k-th passage on
RECURSIVE ComplianceFrom(_, _, _, _)
ComplianceFrom(procedure, rs, k_, analysis_) ==
    By2(k_, analysis_, LAMBDA k, analysis :
        IF k > Len(rs) THEN Returned(analysis)
        ELSE IF ~HasKey(rs[k], "text") THEN Raised(KeyErrorText)
        ELSE By3(Lower(rs[k]["text"]), GetOr(rs[k], "section_type", ""), _get_procedure_variations(procedure),
                 LAMBDA text_lower, section_type, variations :
                IF /\ section_type \in {"benefit", "coverage"}
                   /\ procedure # ""
                   /\ \/ Contains(text_lower, procedure)
                      \/ \E v \in 1..Len(variations) : Contains(text_lower, variations[v])
                THEN ComplianceFrom(procedure, rs, k + 1,
                        [analysis EXCEPT
                            !.coverage_found = TRUE,
                            !.conditions_met = @ \o <<"Procedure '" \o procedure \o "' found in benefits">>,
                            !.supporting_clauses = @ \o <<[type |-> "coverage",
                                                           text |-> Excerpt(rs[k]["text"]),
                                                           source |-> GetOr(rs[k], "filename", "Unknown"),
                                                           section |-> section_type]>>])
                ELSE ComplianceFrom(procedure, rs, k + 1, analysis)))

\* mutant: the section test without "and procedure": the empty procedure
\* occurs in every text
_analyze_policy_compliance_Unguarded(ents_, rs_) ==
    By3(ents_, rs_, ProcedureOf(ents_), LAMBDA ents, rs, procedure :
        IF procedure # ""
        THEN ComplianceFrom(procedure, rs, 1,
                [policy_active |-> TRUE, coverage_found |-> FALSE, conditions_met |-> <<>>,
                 conditions_failed |-> <<>>, supporting_clauses |-> <<>>])
        ELSE IF \E k \in 1..Len(rs) : ~HasKey(rs[k], "text") THEN Raised(KeyErrorText)
        ELSE By(SelectSeq(rs, LAMBDA r : GetOr(r, "section_type", "") \in {"benefit", "coverage"}), LAMBDA hits :
                Returned([policy_active |-> TRUE,
                          coverage_found |-> hits # <<>>,
                          conditions_met |-> [k \in 1..Len(hits) |-> "Procedure '' found in benefits"],
                          conditions_failed |-> <<>>,
                          supporting_clauses |-> [k \in 1..Len(hits) |->
                              [type |-> "coverage",
                               text |-> Excerpt(hits[k]["text"]),
                               source |-> GetOr(hits[k], "filename", "Unknown"),
                               section |-> GetOr(hits[k], "section_type", "")]]])))

_analyze_policy_compliance(ents_, rs_) ==
    By3(ents_, rs_, ProcedureOf(ents_), LAMBDA ents, rs, procedure :
        ComplianceFrom(procedure, rs, 1,
            [policy_active |-> TRUE, coverage_found |-> FALSE, conditions_met |-> <<>>,
             conditions_failed |-> <<>>, supporting_clauses |-> <<>>]))

\* period_patterns, with the unit each names
period_patterns == <<
    Cat(<<Grp(Plus(Digit)), Star(Space), Lit("month"), Opt(Lit("s"))>>),
    Cat(<<Grp(Plus(Digit)), Star(Space), Lit("year"), Opt(Lit("s"))>>),
    Cat(<<Grp(Plus(Digit)), Star(Space), Lit("day"), Opt(Lit("s"))>>) >>

\* durations in months are kept in thirtieths of a month
Thirtieths == 30
Months(n) == n * Thirtieths

\* the conversion to months reads the unit off the whole passage text
RequiredMonths(duration_, text_lower) ==
    By(duration_, LAMBDA duration :
        IF Contains(text_lower, "year") THEN Months(duration * 12)
        ELSE IF Contains(text_lower, "day") THEN duration
        ELSE Months(duration))

\* the matches of the first period pattern, from the n-th on, that has any;
\* <<>> when none has
RECURSIVE FirstPeriodMatches(_, _)
FirstPeriodMatches(text_lower, n_) ==
    By(n_, LAMBDA n :
        IF n > Len(period_patterns) THEN <<>>
        ELSE By(FindAll(period_patterns[n], text_lower), LAMBDA matches :
                IF matches # <<>> THEN matches ELSE FirstPeriodMatches(text_lower, n + 1)))

\* mutant: the passage decides satisfied anew, a later unsatisfied clause
\* resetting it
WaitingUpdate_Resetting(waiting_check, result, text_lower, matches, current_months) ==
    By(RequiredMonths(ParseInt(matches[1]), text_lower), LAMBDA required_months :
        [waiting_check EXCEPT
            !.applicable = TRUE,
            !.required_period = Some(required_months),
            !.current_period = Some(current_months),
            !.satisfied = current_months >= required_months,
            !.details = @ \o <<IF current_months >= required_months
                               THEN "Waiting period satisfied" ELSE "Waiting period not satisfied">>,
            !.supporting_clauses = @ \o <<[type |-> "waiting_period",
                                           text |-> Excerpt(result["text"]),
                                           source |-> GetOr(result, "filename", "Unknown"),
                                           required_months |-> required_months]>>])

\* what one passage with a duration match does to waiting_check
WaitingUpdate(waiting_check, result, text_lower, matches, current_months) ==
    By(RequiredMonths(ParseInt(matches[1]), text_lower), LAMBDA required_months :
        [waiting_check EXCEPT
            !.applicable = TRUE,
            !.required_period = Some(required_months),
            !.current_period = Some(current_months),
            !.satisfied = IF current_months >= required_months THEN TRUE ELSE @,
            !.details = @ \o <<IF current_months >= required_months
                               THEN "Waiting period satisfied" ELSE "Waiting period not satisfied">>,
            !.supporting_clauses = @ \o <<[type |-> "waiting_period",
                                           text |-> Excerpt(result["text"]),
                                           source |-> GetOr(result, "filename", "Unknown"),
                                           required_months |-> required_months]>>])

\* the loop of _check_waiting_periods from the k-th passage on; the break
\* leaves the pattern loop only, the scan of the passages goes on
RECURSIVE WaitingFrom(_, _, _, _, _)
WaitingFrom(procedure, current_months, rs, k_, waiting_check_) ==
    By2(k_, waiting_check_, LAMBDA k, waiting_check :
        IF k > Len(rs) THEN Returned(waiting_check)
        ELSE IF ~HasKey(rs[k], "text") THEN Raised(KeyErrorText)
        ELSE By(Lower(rs[k]["text"]), LAMBDA text_lower :
                By(IF procedure # "" /\ (Contains(text_lower, "waiting period") \/ Contains(text_lower, "wait"))
                   THEN FirstPeriodMatches(text_lower, 1) ELSE <<>>, LAMBDA matches :
                    IF matches # <<>>
                    THEN WaitingFrom(procedure, current_months, rs, k + 1,
                                     WaitingUpdate(waiting_check, rs[k], text_lower, matches, current_months))
                    ELSE WaitingFrom(procedure, current_months, rs, k + 1, waiting_check))))

_check_waiting_periods(ents_, rs_) ==
    By3(ents_, rs_, [applicable |-> FALSE, satisfied |-> FALSE, required_period |-> None,
                     current_period |-> None, details |-> <<>>, supporting_clauses |-> <<>>],
        LAMBDA ents, rs, waiting_check :
            IF ~HasKey(ents, "policy_duration") THEN Returned(waiting_check)
            ELSE By2(ProcedureOf(ents), Months(ents["policy_duration"].months), LAMBDA procedure, current_months :
                    WaitingFrom(procedure, current_months, rs, 1, waiting_check)))

age_patterns == <<
    Cat(<<Lit("above"), Plus(Space), Grp(Plus(Digit)), Plus(Space), Lit("year"), Opt(Lit("s"))>>),
    Cat(<<Lit("over"), Plus(Space), Grp(Plus(Digit)), Plus(Space), Lit("year"), Opt(Lit("s"))>>),
    Cat(<<Grp(Plus(Digit)), Plus(Space), Lit("year"), Opt(Lit("s")), Plus(Space), Lit("and"), Plus(Space), Lit("above")>>) >>

\* the limits, pattern by pattern, that the age exceeds: of each pattern with
\* a match, the first number matched
RECURSIVE AgeExclusions(_, _, _)
AgeExclusions(age, text_lower, n_) ==
    By(n_, LAMBDA n :
        IF n > Len(age_patterns) THEN <<>>
        ELSE By(FindAll(age_patterns[n], text_lower), LAMBDA matches :
                By(IF matches # <<>> THEN ParseInt(matches[1]) ELSE 0, LAMBDA exclusion_age :
                    (IF matches # <<>> /\ age > exclusion_age THEN <<exclusion_age>> ELSE <<>>)
                    \o AgeExclusions(age, text_lower, n + 1))))

\* the loop of _check_exclusions from the k-th passage on
RECURSIVE ExclusionsFrom(_, _, _, _, _)
ExclusionsFrom(procedure, age, rs, k_, exclusion_check_) ==
    By2(k_, exclusion_check_, LAMBDA k, exclusion_check :
        IF k > Len(rs) THEN Returned(exclusion_check)
        ELSE IF ~HasKey(rs[k], "text") THEN Raised(KeyErrorText)
        ELSE IF GetOr(rs[k], "section_type", "") # "exclusion"
        THEN ExclusionsFrom(procedure, age, rs, k + 1, exclusion_check)
        ELSE By(Lower(rs[k]["text"]), LAMBDA text_lower :
                By2(procedure # "" /\ Contains(text_lower, procedure),
                    IF age.some /\ age.v # 0 THEN AgeExclusions(age.v, text_lower, 1) ELSE <<>>,
                    LAMBDA named, by_age :
                    ExclusionsFrom(procedure, age, rs, k + 1,
                        [exclusion_check EXCEPT
                            !.excluded = @ \/ named \/ by_age # <<>>,
                            !.exclusion_reasons =
                                @ \o (IF named THEN <<"Procedure '" \o procedure \o "' found in exclusions">> ELSE <<>>)
                                  \o [n \in 1..Len(by_age) |->
                                        "Age " \o IntToStr(age.v) \o " exceeds exclusion limit of " \o IntToStr(by_age[n])],
                            !.supporting_clauses =
                                @ \o (IF named
                                      THEN <<[type |-> "exclusion",
                                              text |-> Excerpt(rs[k]["text"]),
                                              source |-> GetOr(rs[k], "filename", "Unknown"),
                                              reason |-> "Procedure " \o procedure \o " excluded"]>>
                                      ELSE <<>>)]))))

\* mutant: the section test is dropped, every passage is read as an
\* exclusion clause
_check_exclusions_AnySection(ents_, rs_) ==
    By4(ents_, Listed([k \in 1..Len(rs_) |-> [section_type |-> "exclusion"] @@ rs_[k]]),
        ProcedureOf(ents_), IF HasKey(ents_, "age") THEN Some(ents_["age"]) ELSE None,
        LAMBDA ents, rs, procedure, age :
            ExclusionsFrom(procedure, age, rs, 1,
                           [excluded |-> FALSE, exclusion_reasons |-> <<>>,
                            applicable_exclusions |-> <<>>, supporting_clauses |-> <<>>]))

_check_exclusions(ents_, rs_) ==
    By4(ents_, rs_, ProcedureOf(ents_), IF HasKey(ents_, "age") THEN Some(ents_["age"]) ELSE None,
        LAMBDA ents, rs, procedure, age :
            ExclusionsFrom(procedure, age, rs, 1,
                           [excluded |-> FALSE, exclusion_reasons |-> <<>>,
                            applicable_exclusions |-> <<>>, supporting_clauses |-> <<>>]))

\* \d+(?:,\d+)*(?:\.\d+)?
DecimalNumber == Cat(<<GroupedDigits, Opt(Cat(<<Lit("."), Plus(Digit)>>))>>)

amount_patterns == <<
    Cat(<<Lit("₹"), Star(Space), Grp(DecimalNumber)>>),
    Cat(<<Lit("rs"), Opt(Lit(".")), Star(Space), Grp(DecimalNumber)>>),
    Cat(<<Lit("rupee"), Opt(Lit("s")), Star(Space), Grp(DecimalNumber)>>),
    Cat(<<Lit("inr"), Star(Space), Grp(DecimalNumber)>>),
    Cat(<<Grp(DecimalNumber), Star(Space),
          Alt(<<Cat(<<Lit("rupee"), Opt(Lit("s"))>>), Cat(<<Lit("rs"), Opt(Lit("."))>>), Lit("₹")>>)>>) >>

\* mutant: the thousands separators are not removed and the number ends at
\* the first of them
ParseAmount_UpToComma(amount_str_) ==
    By2(amount_str_, IndexIn(",", amount_str_), LAMBDA amount_str, comma :
        Rupees(ParseInt(IF comma = 0 THEN amount_str ELSE SubSeq(amount_str, 1, comma - 1))))

\* float(amount_str.replace(',', '')), in hundredths of a rupee (digits after
\* the second decimal place are dropped)
ParseAmount(amount_str_) ==
    By(ReplaceCh(amount_str_, ",", ""), LAMBDA plain :
        By(IndexIn(".", plain), LAMBDA dot :
            Rupees(ParseInt(IF dot = 0 THEN plain ELSE SubSeq(plain, 1, dot - 1)))
            + ParseInt(Prefix((IF dot = 0 THEN "" ELSE SubSeq(plain, dot + 1, Len(plain))) \o "00", 2))))

\* every amount string matched in the text, pattern by pattern
AmountsFrom(text_lower) ==
    Flatten([n \in 1..Len(amount_patterns) |-> FindAll(amount_patterns[n], text_lower)],
            1, Len(amount_patterns))

\* benefit_calc after the amounts found from the j-th on in one passage
RECURSIVE BenefitAmounts(_, _, _, _, _)
BenefitAmounts(procedure, result, amounts, j_, benefit_calc_) ==
    By2(j_, benefit_calc_, LAMBDA j, benefit_calc :
        IF j > Len(amounts) THEN benefit_calc
        ELSE By(ParseAmount(amounts[j]), LAMBDA amount :
                BenefitAmounts(procedure, result, amounts, j + 1,
                    [benefit_calc EXCEPT
                        !.amount = IF amount > @ THEN amount ELSE @,
                        !.sub_limits = @ \o <<[procedure |-> IF procedure # "" THEN procedure ELSE "general",
                                               limit |-> amount,
                                               source |-> GetOr(result, "filename", "Unknown"),
                                               section |-> GetOr(result, "section_type", "")]>>,
                        !.supporting_clauses = @ \o <<[type |-> "benefit_amount",
                                                       text |-> Excerpt(result["text"]),
                                                       amount |-> amount,
                                                       source |-> GetOr(result, "filename", "Unknown")]>>])))

\* the loop of _calculate_benefit_amount from the k-th passage on
RECURSIVE BenefitFrom(_, _, _, _)
BenefitFrom(procedure, rs, k_, benefit_calc_) ==
    By2(k_, benefit_calc_, LAMBDA k, benefit_calc :
        IF k > Len(rs) THEN Returned(benefit_calc)
        ELSE IF ~HasKey(rs[k], "text") THEN Raised(KeyErrorText)
        ELSE By(Lower(rs[k]["text"]), LAMBDA text_lower :
                IF /\ GetOr(rs[k], "section_type", "") \in {"benefit", "limitation", "financial"}
                   /\ (procedure = "" \/ Contains(text_lower, procedure))
                THEN By(AmountsFrom(text_lower), LAMBDA amounts :
                        BenefitFrom(procedure, rs, k + 1,
                                    BenefitAmounts(procedure, rs[k], amounts, 1, benefit_calc)))
                ELSE BenefitFrom(procedure, rs, k + 1, benefit_calc)))

\* mutant: the first amount matched is kept, not the largest
_calculate_benefit_amount_FirstAmount(ents_, rs_) ==
    By(BenefitFrom(ProcedureOf(ents_), rs_, 1,
            [amount |-> 0, currency |-> "INR", calculation_basis |-> "sum_insured",
             sub_limits |-> <<>>, deductions |-> <<>>, supporting_clauses |-> <<>>]), LAMBDA out :
        IF out.raised THEN out
        ELSE Returned([out.value EXCEPT
                          !.amount = IF out.value.sub_limits = <<>> THEN 0 ELSE out.value.sub_limits[1].limit]))

_calculate_benefit_amount(ents_, rs_) ==
    By3(ents_, rs_, ProcedureOf(ents_), LAMBDA ents, rs, procedure :
        BenefitFrom(procedure, rs, 1,
            [amount |-> 0, currency |-> "INR", calculation_basis |-> "sum_insured",
             sub_limits |-> <<>>, deductions |-> <<>>, supporting_clauses |-> <<>>]))

_compile_supporting_evidence(compliance_analysis, waiting_period_check, exclusion_check, benefit_calculation) ==
    compliance_analysis.supporting_clauses \o waiting_period_check.supporting_clauses
    \o exclusion_check.supporting_clauses \o benefit_calculation.supporting_clauses

_analyze_confidence_factors(ents, rs) ==
    By3(Cardinality(DOMAIN ents),
        Len(SelectSeq(rs, LAMBDA r : GetOr(r, "similarity_score", 0) > 80)),
        Cardinality({GetOr(rs[k], "filename", "") : k \in 1..Len(rs)}),
        LAMBDA entity_count, high_similarity_results, unique_documents :
        << IF entity_count >= 3 THEN "Complete entity extraction"
           ELSE IF entity_count >= 2 THEN "Partial entity extraction"
           ELSE "Limited entity extraction",
           IF high_similarity_results >= 3 THEN "High-quality search results"
           ELSE IF high_similarity_results >= 1 THEN "Good search results"
           ELSE "Limited search results",
           IF unique_documents >= 2 THEN "Multiple document sources"
           ELSE "Single document source" >>)

\* sum(similarity_score for r in rs)
RECURSIVE SumScores(_, _)
SumScores(rs, k_) ==
    By(k_, LAMBDA k : IF k > Len(rs) THEN 0 ELSE GetOr(rs[k], "similarity_score", 0) + SumScores(rs, k + 1))

\* mutant: the sum is returned without min(..., 1.0)
_calculate_decision_confidence_Unclamped(compliance_analysis, waiting_period_check, exclusion_check, rs) ==
    By2(IF Len(rs) > 1 THEN Len(rs) ELSE 1, SumScores(rs, 1), LAMBDA count, total :
        60
        + (IF exclusion_check.excluded /\ exclusion_check.supporting_clauses # <<>> THEN 20 ELSE 0)
        + (IF compliance_analysis.coverage_found /\ compliance_analysis.supporting_clauses # <<>> THEN 15 ELSE 0)
        + (IF waiting_period_check.applicable /\ ~waiting_period_check.satisfied THEN 15 ELSE 0)
        + (IF total > 80 * count THEN 10 ELSE IF total > 60 * count THEN 5 ELSE 0))

\* in hundredths; avg_similarity > 0.8 is sum > 0.8 * max(len, 1).  The
\* hundredths are exact for scores whose float sum rounds to their decimal
\* sum, as those of the passage pools do
_calculate_decision_confidence(compliance_analysis, waiting_period_check, exclusion_check, rs) ==
    By2(IF Len(rs) > 1 THEN Len(rs) ELSE 1, SumScores(rs, 1), LAMBDA count, total :
        Min(60
            + (IF exclusion_check.excluded /\ exclusion_check.supporting_clauses # <<>> THEN 20 ELSE 0)
            + (IF compliance_analysis.coverage_found /\ compliance_analysis.supporting_clauses # <<>> THEN 15 ELSE 0)
            + (IF waiting_period_check.applicable /\ ~waiting_period_check.satisfied THEN 15 ELSE 0)
            + (IF total > 80 * count THEN 10 ELSE IF total > 60 * count THEN 5 ELSE 0),
            100))

\* mutant: the "not covered" branch asks for a failed condition as well, so
\* that the chain can reach its else
BranchConditions_NotExhaustive(compliance_analysis, waiting_period_check, exclusion_check) ==
    << exclusion_check.excluded,
       waiting_period_check.applicable /\ ~waiting_period_check.satisfied,
       compliance_analysis.coverage_found,
       ~compliance_analysis.coverage_found /\ compliance_analysis.conditions_failed # <<>>,
       TRUE >>

\* the conditions of the if / elif / else chain of _generate_final_decision,
\* in order
BranchConditions(compliance_analysis, waiting_period_check, exclusion_check) ==
    << exclusion_check.excluded,
       waiting_period_check.applicable /\ ~waiting_period_check.satisfied,
       compliance_analysis.coverage_found,
       ~compliance_analysis.coverage_found,
       TRUE >>

\* mutant: coverage is looked at before the exclusion and the waiting period
DecisionBranch_CoverageFirst(compliance_analysis, waiting_period_check, exclusion_check) ==
    IF compliance_analysis.coverage_found THEN 3
    ELSE IF exclusion_check.excluded THEN 1
    ELSE IF waiting_period_check.applicable /\ ~waiting_period_check.satisfied THEN 2
    ELSE 4

\* mutant: the chain written with if in place of elif, so that the last
\* condition that holds decides
DecisionBranch_LastWins(compliance_analysis, waiting_period_check, exclusion_check) ==
    By(BranchConditions(compliance_analysis, waiting_period_check, exclusion_check), LAMBDA conds :
        CHOOSE b \in 1..4 : conds[b] /\ \A a \in (b + 1)..4 : ~conds[a])

\* the branch that runs: the first whose condition holds
DecisionBranch(compliance_analysis, waiting_period_check, exclusion_check) ==
    By(BranchConditions(compliance_analysis, waiting_period_check, exclusion_check), LAMBDA conds :
        CHOOSE b \in 1..Len(conds) : conds[b] /\ \A a \in 1..(b - 1) : ~conds[a])

BranchDecision == <<"REJECTED", "REJECTED", "APPROVED", "REJECTED", "NEEDS_REVIEW">>
BranchReason == <<
    "Procedure excluded under policy terms",
    "Waiting period not satisfied",
    "Coverage applicable under policy terms",
    "Procedure not covered under policy",
    "Insufficient information for automatic decision" >>

\* mutant: the calculated benefit is paid whatever the branch
BranchAmount_AnyBranch(branch, benefit_calculation) == benefit_calculation.amount

\* the amount is taken from the benefit calculation in the APPROVED branch only
BranchAmount(branch, benefit_calculation) ==
    IF branch = 3 THEN benefit_calculation.amount ELSE 0

_generate_final_decision(compliance_analysis, waiting_period_check, exclusion_check, benefit_calculation, ents, rs, now) ==
    By(DecisionBranch(compliance_analysis, waiting_period_check, exclusion_check), LAMBDA branch :
        [decision |-> BranchDecision[branch],
         amount |-> BranchAmount(branch, benefit_calculation),
         justification |->
            [primary_reason |-> BranchReason[branch],
             decision_factors |-> [coverage_analysis |-> compliance_analysis,
                                   waiting_period_check |-> waiting_period_check,
                                   exclusion_check |-> exclusion_check,
                                   benefit_calculation |-> benefit_calculation],
             supporting_evidence |-> _compile_supporting_evidence(
                  compliance_analysis, waiting_period_check, exclusion_check, benefit_calculation),
             query_analysis |-> [extracted_entities |-> ents,
                                 confidence_factors |-> _analyze_confidence_factors(ents, rs)]],
         confidence |-> _calculate_decision_confidence(
                            compliance_analysis, waiting_period_check, exclusion_check, rs),
         processing_details |->
            [documents_analyzed |-> Len(rs),
             relevant_sections_found |-> Len(SelectSeq(rs, LAMBDA r : GetOr(r, "similarity_score", 0) > 70)),
             decision_timestamp |-> now]])

_create_error_decision(error_message, now) ==
    [decision |-> "ERROR",
     amount |-> 0,
     justification |-> [primary_reason |-> "Processing error occurred",
                        error_details |-> error_message,
                        decision_factors |-> EmptyDict,
                        supporting_evidence |-> <<>>,
                        query_analysis |-> EmptyDict],
     confidence |-> 0,
     processing_details |-> [error |-> TRUE, error_message |-> error_message,
                             decision_timestamp |-> now]]

\* the synthesis, once the four analyses have returned
Synthesis(compliance_analysis_, waiting_period_check_, exclusion_check_, benefit_calculation_, ents, rs, now) ==
    By4(compliance_analysis_, waiting_period_check_, exclusion_check_, benefit_calculation_,
        LAMBDA compliance_analysis, waiting_period_check, exclusion_check, benefit_calculation :
            Returned(_generate_final_decision(
                compliance_analysis, waiting_period_check, exclusion_check, benefit_calculation, ents, rs, now)))

\* mutant: the mean similarity divides by len(search_results), and an empty
\* list raises ZeroDivisionError in the synthesis
DecisionAttempt_DividesByLen(ents_, rs_, now) ==
    By2(ents_, rs_, LAMBDA ents, rs :
        By4(_analyze_policy_compliance(ents, rs), _check_waiting_periods(ents, rs),
            _check_exclusions(ents, rs), _calculate_benefit_amount(ents, rs),
            LAMBDA compliance_analysis, waiting_period_check, exclusion_check, benefit_calculation :
                IF compliance_analysis.raised THEN compliance_analysis
                ELSE IF waiting_period_check.raised THEN waiting_period_check
                ELSE IF exclusion_check.raised THEN exclusion_check
                ELSE IF benefit_calculation.raised THEN benefit_calculation
                ELSE IF rs = <<>> THEN Raised("division by zero")
                ELSE Synthesis(compliance_analysis.value, waiting_period_check.value, exclusion_check.value,
                               benefit_calculation.value, ents, rs, now)))

\* the body of the try block of make_decision: the four analyses in order,
\* then the synthesis; the first exception ends it
DecisionAttempt(ents_, rs_, now) ==
    By2(ents_, rs_, LAMBDA ents, rs :
        By4(_analyze_policy_compliance(ents, rs), _check_waiting_periods(ents, rs),
            _check_exclusions(ents, rs), _calculate_benefit_amount(ents, rs),
            LAMBDA compliance_analysis, waiting_period_check, exclusion_check, benefit_calculation :
                IF compliance_analysis.raised THEN compliance_analysis
                ELSE IF waiting_period_check.raised THEN waiting_period_check
                ELSE IF exclusion_check.raised THEN exclusion_check
                ELSE IF benefit_calculation.raised THEN benefit_calculation
                ELSE Synthesis(compliance_analysis.value, waiting_period_check.value, exclusion_check.value,
                               benefit_calculation.value, ents, rs, now)))

\* mutant: no except clause, the exception leaves make_decision
make_decision_Propagates(q, ents, rs, now) == DecisionAttempt(ents, rs, now)

\* except Exception: the error decision is returned, nothing is raised
make_decision(q, ents, rs, now) ==
    By(DecisionAttempt(ents, rs, now), LAMBDA attempt :
        IF attempt.raised THEN Returned(_create_error_decision(attempt.error, now)) ELSE attempt)

(***************************************************************************)
(* SemanticSearchService                                                   *)
(* A candidate is a row of the retrieval query: chunk_id, text,            *)
(* section_type, filename and similarity_score (in hundredths); the        *)
(* columns that nothing reads (metadata, page_number, confidence_score,    *)
(* document_type) are left out.                                            *)
(***************************************************************************)

\* settings.SIMILARITY_THRESHOLD, in hundredths
SIMILARITY_THRESHOLD == 70

\* float('nan'): what 1 - (v <=> q) is when the query vector is all zeros.
\* nan + x is nan, min(nan, 1.0) is nan, and every comparison with nan is false.
NaN == 1000

FloatAdd(a, b) == IF a = NaN \/ b = NaN THEN NaN ELSE a + b
FloatGE(a, b) == a # NaN /\ b # NaN /\ a >= b
FloatGT(a, b) == a # NaN /\ b # NaN /\ a > b
\* min(a, b) of Python: b if b < a, else a
FloatMin(a, b) == IF FloatGT(a, b) THEN b ELSE a

\* the positions at which a word of s starts, and at which one ends
WordStarts(s) == {i \in 1..Len(s) : ~IsSpace(Ch(s, i)) /\ (i = 1 \/ IsSpace(Ch(s, i - 1)))}
WordEnds(s) == {i \in 1..Len(s) : ~IsSpace(Ch(s, i)) /\ (i = Len(s) \/ IsSpace(Ch(s, i + 1)))}

\* s.split()
Split(s_) ==
    By3(s_, WordStarts(s_), WordEnds(s_), LAMBDA s, starts, ends :
        Listed([k \in 1..Cardinality(starts) |-> SubSeq(s, Nth(starts, k), Nth(ends, k))]))

\* bigrams of the query words
Bigrams(query_words) ==
    Listed([i \in 1..(IF Len(query_words) > 1 THEN Len(query_words) - 1 ELSE 0) |->
                query_words[i] \o " " \o query_words[i + 1]])

_calculate_keyword_boost(q, ents, text) ==
    By2(Split(Lower(q)), Lower(text), LAMBDA query_words, text_lower :
        Min(2 * Hits(query_words, text_lower) + 5 * Hits(Bigrams(query_words), text_lower), 20))

entity_section_mapping ==
    ("procedure" :> {"benefit", "coverage", "condition"})
    @@ ("amount" :> {"benefit", "financial", "limitation"})
    @@ ("policy_duration" :> {"limitation", "condition"})

_calculate_section_boost(ents, section_type) ==
    By({entity_type \in DOMAIN ents \cap DOMAIN entity_section_mapping :
            section_type \in entity_section_mapping[entity_type]}, LAMBDA mapped :
        Min(10 * Cardinality(mapped)
            + (IF section_type = "exclusion" THEN 5 ELSE IF section_type = "benefit" THEN 10 ELSE 0),
            30))

\* mutant: the entity boost is not capped
_calculate_entity_boost_Uncapped(ents, text) ==
    By(Lower(text), LAMBDA text_lower :
        (IF HasKey(ents, "procedure") /\ ents["procedure"] # ""
            /\ Contains(text_lower, Lower(ents["procedure"])) THEN 15 ELSE 0)
        + (IF HasKey(ents, "location") /\ ents["location"] # ""
              /\ Contains(text_lower, Lower(ents["location"])) THEN 5 ELSE 0)
        + (IF HasKey(ents, "age") /\ ents["age"] # 0
              /\ Contains(text_lower, IntToStr(ents["age"])) THEN 10 ELSE 0))

_calculate_entity_boost(ents, text) ==
    By(Lower(text), LAMBDA text_lower :
        Min((IF HasKey(ents, "procedure") /\ ents["procedure"] # ""
                /\ Contains(text_lower, Lower(ents["procedure"])) THEN 15 ELSE 0)
            + (IF HasKey(ents, "location") /\ ents["location"] # ""
                  /\ Contains(text_lower, Lower(ents["location"])) THEN 5 ELSE 0)
            + (IF HasKey(ents, "age") /\ ents["age"] # 0
                  /\ Contains(text_lower, IntToStr(ents["age"])) THEN 10 ELSE 0),
            25))

\* one pass of the loop of _enhance_with_keyword_search
Enhance(q, ents, result_) ==
    By(result_, LAMBDA result :
        By3(_calculate_keyword_boost(q, ents, result.text),
            _calculate_section_boost(ents, result.section_type),
            _calculate_entity_boost(ents, result.text),
            LAMBDA keyword_boost, section_boost, entity_boost :
            [chunk_id |-> result.chunk_id, text |-> result.text, section_type |-> result.section_type,
             filename |-> result.filename,
             similarity_score |->
                FloatMin(FloatAdd(result.similarity_score, keyword_boost + section_boost + entity_boost), 100),
             boost_factors |-> [keyword_boost |-> keyword_boost, section_boost |-> section_boost,
                                entity_boost |-> entity_boost]]))

_enhance_with_keyword_search(q, ents, vector_results) ==
    Listed([k \in 1..Len(vector_results) |-> Enhance(q, ents, vector_results[k])])

\* the keys of the entity dict in insertion order
EntityOrder == <<"age", "gender", "procedure", "location", "policy_duration", "amount",
                 "dates", "organizations", "money_mentions">>

RECURSIVE ListRepr(_, _)
ListRepr(items, k_) ==
    By(k_, LAMBDA k :
        IF k > Len(items) THEN ""
        ELSE (IF k > 1 THEN ", " ELSE "") \o "'" \o items[k] \o "'" \o ListRepr(items, k + 1))

\* str(entity_value)
PyStr(entity_type, entity_value) ==
    IF entity_type = "age" THEN IntToStr(entity_value)
    ELSE IF entity_type \in {"gender", "procedure", "location"} THEN entity_value
    ELSE IF entity_type = "policy_duration"
    THEN "{'duration': " \o IntToStr(entity_value.duration) \o ", 'unit': '" \o entity_value.unit
         \o "', 'months': " \o IntToStr(entity_value.months) \o "}"
    ELSE IF entity_type = "amount"
    THEN "{'amount': " \o IntToStr(entity_value.amount \div 100) \o ".0, 'currency': '" \o entity_value.currency
         \o "', 'formatted': '" \o entity_value.formatted \o "'}"
    ELSE "[" \o ListRepr(entity_value, 1) \o "]"

\* bool(entity_value): 0, '' and [] are false
Truthy(entity_type, entity_value) ==
    IF entity_type = "age" THEN entity_value # 0
    ELSE IF entity_type \in {"gender", "procedure", "location"} THEN entity_value # ""
    ELSE IF entity_type \in {"policy_duration", "amount"} THEN TRUE
    ELSE entity_value # <<>>

_explain_relevance(result_, ents) ==
    By2(result_, Lower(result_.text), LAMBDA result, text_lower :
        By(SelectSeq(EntityOrder, LAMBDA entity_type :
                /\ HasKey(ents, entity_type)
                /\ Truthy(entity_type, ents[entity_type])
                /\ Contains(text_lower, Lower(PyStr(entity_type, ents[entity_type])))), LAMBDA present :
            (IF FloatGT(result.similarity_score, 80) THEN <<"High semantic similarity">>
             ELSE IF FloatGT(result.similarity_score, 60) THEN <<"Good semantic similarity">> ELSE <<>>)
            \o Listed([k \in 1..Len(present) |->
                        "Contains " \o present[k] \o ": " \o PyStr(present[k], ents[present[k]])])
            \o (IF result.section_type \in {"benefit", "coverage"} THEN <<"Relevant policy section">>
                ELSE IF result.section_type = "exclusion" THEN <<"Important exclusion clause">> ELSE <<>>)
            \o (IF result.boost_factors.keyword_boost > 5 THEN <<"Strong keyword match">> ELSE <<>>)))

\* mutant: of the results with the best score, the last one comes first
RECURSIVE SortedByScore_LastOfTies(_)
SortedByScore_LastOfTies(results_) ==
    By(results_, LAMBDA results :
        IF results = <<>> THEN <<>>
        ELSE By(CHOOSE i \in 1..Len(results) :
                    /\ \A j \in 1..Len(results) : results[i].similarity_score >= results[j].similarity_score
                    /\ \A j \in (i + 1)..Len(results) : results[j].similarity_score # results[i].similarity_score,
                LAMBDA best :
                <<results[best]>>
                \o SortedByScore_LastOfTies(SubSeq(results, 1, best - 1) \o SubSeq(results, best + 1, Len(results)))))

\* sorted(..., key=similarity_score, reverse=True): stable, so that of two
\* results with the same score the one that came first stays first
RECURSIVE SortedByScore(_)
SortedByScore(results_) ==
    By(results_, LAMBDA results :
        IF results = <<>> THEN <<>>
        ELSE By(CHOOSE i \in 1..Len(results) :
                    /\ \A j \in 1..Len(results) : results[i].similarity_score >= results[j].similarity_score
                    /\ \A j \in 1..(i - 1) : results[j].similarity_score # results[i].similarity_score,
                LAMBDA best :
                <<results[best]>>
                \o SortedByScore(SubSeq(results, 1, best - 1) \o SubSeq(results, best + 1, Len(results)))))

\* seq[:n] for n >= 0
Take(seq_, n) == By(seq_, LAMBDA seq : SubSeq(seq, 1, Min(n, Len(seq))))

\* mutant: the threshold filter is left out
_rank_and_filter_results_Unfiltered(results, ents, similarity_threshold, top_k) ==
    By(SortedByScore(results), LAMBDA sorted_results :
        Take(Listed([k \in 1..Len(sorted_results) |->
            [chunk_id |-> sorted_results[k].chunk_id, text |-> sorted_results[k].text,
             section_type |-> sorted_results[k].section_type, filename |-> sorted_results[k].filename,
             similarity_score |-> sorted_results[k].similarity_score,
             boost_factors |-> sorted_results[k].boost_factors,
             relevance_factors |-> _explain_relevance(sorted_results[k], ents)]]), top_k))

_rank_and_filter_results(results, ents, similarity_threshold, top_k) ==
    By(SelectSeq(results, LAMBDA result : FloatGE(result.similarity_score, similarity_threshold)),
       LAMBDA filtered_results :
        By(SortedByScore(filtered_results), LAMBDA sorted_results :
            Take(Listed([k \in 1..Len(sorted_results) |->
                [chunk_id |-> sorted_results[k].chunk_id, text |-> sorted_results[k].text,
                 section_type |-> sorted_results[k].section_type, filename |-> sorted_results[k].filename,
                 similarity_score |-> sorted_results[k].similarity_score,
                 boost_factors |-> sorted_results[k].boost_factors,
                 relevance_factors |-> _explain_relevance(sorted_results[k], ents)]]), top_k)))

\* a chunk of the corpus, with the similarity pgvector computes between its
\* embedding and the embedding of the query
Candidate(chunk, similarity_score) ==
    [chunk_id |-> chunk.chunk_id, text |-> chunk.text, section_type |-> chunk.section_type,
     filename |-> chunk.filename, similarity_score |-> similarity_score]

\* the length of the vector returned when the provider raises
EmbeddingDimension == 1536

\* A vector is kept as its length and whether all its components are zero.
\* mutant: the fallback vector is empty
get_embedding_Empty(provider_ok) ==
    IF provider_ok THEN [dimension |-> EmbeddingDimension, zero |-> FALSE] ELSE [dimension |-> 0, zero |-> TRUE]

\* get_embedding: the provider's vector for settings.EMBEDDING_MODEL, or
\* [0.0] * 1536 when the provider raises
get_embedding(provider_ok) ==
    IF provider_ok THEN [dimension |-> EmbeddingDimension, zero |-> FALSE]
    ELSE [dimension |-> EmbeddingDimension, zero |-> TRUE]

\* ORDER BY distance LIMIT :limit.  Against the zero vector every distance is
\* NaN and the rows come in storage order.
_postgres_vector_search(corpus, query_embedding, top_k) ==
    IF query_embedding.zero
    THEN Take(Listed([k \in 1..Len(corpus) |-> Candidate(corpus[k], NaN)]), top_k)
    ELSE Take(SortedByScore(Listed([k \in 1..Len(corpus) |-> Candidate(corpus[k], corpus[k].similarity)])), top_k)

\* mutant: the listing is not limited
_basic_text_search_Unlimited(corpus, top_k) ==
    Listed([k \in 1..Len(corpus) |-> Candidate(corpus[k], 50)])

\* select(DocumentChunk, Document).join(Document).limit(top_k), each at 0.5
_basic_text_search(corpus, top_k) ==
    Take(Listed([k \in 1..Len(corpus) |-> Candidate(corpus[k], 50)]), top_k)

\* db is what the two statements do on the session: "ok", "vector_raises"
\* (the vector statement raises, the listing works) or "raises" (both raise)
_vector_search(corpus, query_embedding, top_k, VECTOR_DB_TYPE, db) ==
    IF VECTOR_DB_TYPE = "postgres"
    THEN (IF db = "ok" THEN _postgres_vector_search(corpus, query_embedding, top_k)
          ELSE IF db = "vector_raises" THEN _basic_text_search(corpus, top_k)
          ELSE <<>>)
    ELSE (IF db = "raises" THEN <<>> ELSE _basic_text_search(corpus, top_k))

\* the whole of search_documents, for one outcome of its two collaborators
search_documents(q_, ents_, top_k_, corpus_, provider_ok, VECTOR_DB_TYPE, db) ==
    By4(q_, ents_, top_k_, corpus_, LAMBDA q, ents, top_k, corpus :
        By(get_embedding(provider_ok), LAMBDA query_embedding :
            By(_vector_search(corpus, query_embedding, top_k * 2, VECTOR_DB_TYPE, db), LAMBDA results :
                By(_enhance_with_keyword_search(q, ents, results), LAMBDA enhanced_results :
                    _rank_and_filter_results(enhanced_results, ents, SIMILARITY_THRESHOLD, top_k)))))

(***************************************************************************)
(* The engine on its own: make_decision applied, twice, to an entity map   *)
(* and a passage list drawn from bounded sets.                             *)
(***************************************************************************)

MaxPassages == 2

Passage(text, section_type, filename, similarity_score) ==
    [text |-> text, section_type |-> section_type, filename |-> filename,
     similarity_score |-> similarity_score]

BenefitKnee == Passage("Knee surgery is covered up to ₹50,000 per policy year.", "benefit", "policy.pdf", 90)
WaitingKnee == Passage("A waiting period of 24 months applies to knee surgery.", "condition", "policy.pdf", 85)
ExclusionKnee == Passage("Knee surgery excluded for patients above 60 years.", "exclusion", "policy.pdf", 80)
BenefitDialysis == Passage("Dialysis: Rs. 2,000.50 per session, payable after you wait 90 days.", "benefit", "rider.pdf", 70)
LimitOperation == Passage("Knee operation sub-limit INR 75,000; room rent 1,500 rupees.", "limitation", "policy.pdf", 60)
WaitingFirstYear == Passage("Knee surgery has a waiting period of 2 months in the first policy year.", "condition", "rider.pdf", 75)
\* a record without the key text
Malformed == [section_type |-> "benefit", filename |-> "policy.pdf", similarity_score |-> 90]

PassagePool ==
    {BenefitKnee, WaitingKnee, ExclusionKnee, BenefitDialysis, LimitOperation, WaitingFirstYear, Malformed}

\* the sequences over S of length at most n
SeqsUpTo(S, n) == UNION {[1..m -> S] : m \in 0..n}

PassageLists == SeqsUpTo(PassagePool, MaxPassages)

\* the entity maps the parser can produce from an age, a procedure and a policy duration
EntityMaps ==
    { a @@ p @@ d :
        a \in {EmptyDict, Entry("age", 46), Entry("age", 65)},
        p \in {EmptyDict, Entry("procedure", "knee surgery"), Entry("procedure", "dialysis")},
        d \in {EmptyDict,
               Entry("policy_duration", [duration |-> 3, unit |-> "months", months |-> 3])} }

NoOutcome == [raised |-> FALSE, pending |-> TRUE]

InitDecide ==
    /\ pc = "ranked"
    /\ query = "claim"
    /\ nlp = [kind |-> "absent"]
    /\ parsed = NoOutcome
    /\ entities \in EntityMaps
    /\ search_results \in PassageLists
    /\ decision = NoOutcome
    /\ repeat = NoOutcome
    /\ env = [clock |-> 0]
    /\ response = NoOutcome

\* datetime.utcnow() moves on between two calls
Decide ==
    /\ pc = "ranked"
    /\ decision' = make_decision(query, entities, search_results, env.clock)
    /\ env' = [env EXCEPT !.clock = @ + 1]
    /\ pc' = "decided"
    /\ UNCHANGED <<query, nlp, parsed, entities, search_results, repeat, response>>

DecideAgain ==
    /\ pc = "decided"
    /\ repeat' = make_decision(query, entities, search_results, env.clock)
    /\ env' = [env EXCEPT !.clock = @ + 1]
    /\ pc' = "repeated"
    /\ UNCHANGED <<query, nlp, parsed, entities, search_results, decision, response>>

NextDecide == Decide \/ DecideAgain

SpecDecide == InitDecide /\ [][NextDecide]_vars

(***************************************************************************)
(* make_decision on passages that exercise the analyses: a coverage clause *)
(* that names the procedure by a variation only, a benefit clause with two *)
(* amounts, an exclusion clause with an age threshold, a financial clause  *)
(* that names no procedure, and a condition clause that names a procedure  *)
(* and an age threshold outside any exclusion section.                     *)
(***************************************************************************)

CoverageOperation == Passage("Knee operation and knee replacement are covered for inpatients.", "coverage", "policy.pdf", 85)
BenefitCardiac == Passage("Cardiac care benefit: Rs. 40,000, or 1,20,000 rupees for heart surgery in a network hospital.", "benefit", "rider.pdf", 75)
FinancialAmbulance == Passage("Ambulance charges up to ₹2,000 per admission.", "financial", "policy.pdf", 55)
ConditionSenior == Passage("Heart surgery for members over 50 years needs a cardiac report.", "condition", "policy.pdf", 90)

\* a clause longer than the 200 characters kept as evidence
CoverageCoronary == Passage("Coronary bypass and angioplasty are covered under the cardiology benefit when the insured member is admitted for more than twenty four hours in a network hospital and the treating doctor certifies the need in writing before admission.", "coverage", "rider.pdf", 64)

AnalysisPool ==
    {CoverageOperation, BenefitCardiac, ExclusionKnee, FinancialAmbulance, ConditionSenior, CoverageCoronary}

AnalysisLists == SeqsUpTo(AnalysisPool, MaxPassages)

AnalysisEntityMaps ==
    { a @@ p :
        a \in {EmptyDict, Entry("age", 60), Entry("age", 65)},
        p \in {EmptyDict, Entry("procedure", "knee surgery"), Entry("procedure", "heart surgery")} }

InitAnalyse ==
    /\ pc = "ranked"
    /\ query = "claim"
    /\ nlp = [kind |-> "absent"]
    /\ parsed = NoOutcome
    /\ entities \in AnalysisEntityMaps
    /\ search_results \in AnalysisLists
    /\ decision = NoOutcome
    /\ repeat = NoOutcome
    /\ env = [clock |-> 0]
    /\ response = NoOutcome

SpecAnalyse == InitAnalyse /\ [][NextDecide]_vars

(***************************************************************************)
(* Properties of make_decision                                             *)
(***************************************************************************)

Decided == pc \in {"decided", "repeated"}
Labels == {"APPROVED", "REJECTED", "NEEDS_REVIEW", "ERROR"}
Factors == decision.value.justification.decision_factors
WellFormed(rs) == \A k \in 1..Len(rs) : HasKey(rs[k], "text")

\* C1: the Decision returned by make_decision has amount > 0 only if its label
\* is APPROVED; REJECTED, NEEDS_REVIEW and ERROR decisions carry amount 0.
C1_AmountOnlyIfApproved ==
    Decided =>
        /\ ~decision.raised
        /\ decision.value.decision \in Labels
        /\ decision.value.amount >= 0
        /\ decision.value.amount > 0 => decision.value.decision = "APPROVED"
        /\ decision.value.decision \in {"REJECTED", "NEEDS_REVIEW", "ERROR"} => decision.value.amount = 0

\* a rejection although the benefit calculation found an amount
C1_Witness ==
    /\ Decided
    /\ decision.value.decision = "REJECTED"
    /\ Factors.benefit_calculation.amount > 0
    /\ decision.value.amount = 0

IsExclusionRejection(d) ==
    /\ d.decision = "REJECTED"
    /\ d.amount = 0
    /\ d.justification.primary_reason = "Procedure excluded under policy terms"

IsWaitingRejection(d) ==
    /\ d.decision = "REJECTED"
    /\ d.amount = 0
    /\ d.justification.primary_reason = "Waiting period not satisfied"

\* the procedure name occurs in a passage of section type exclusion
ProcedureNamedInExclusion(ents, rs) ==
    /\ ProcedureOf(ents) # ""
    /\ \E k \in 1..Len(rs) :
          /\ rs[k].section_type = "exclusion"
          /\ Contains(Lower(rs[k].text), ProcedureOf(ents))

\* C2: the priority order is exclusion, waiting period, coverage, not covered:
\* whenever the exclusion check reports excluded (as when the procedure name
\* occurs in an exclusion passage) the decision is REJECTED with amount 0 and
\* the exclusion reason, whatever the coverage and waiting-period results; and
\* whenever it does not, but a waiting period is applicable and not satisfied,
\* the decision is REJECTED with the waiting-period reason even if coverage
\* was found.
C2_PriorityOrder ==
    (Decided /\ WellFormed(search_results)) =>
        /\ decision.value.decision # "ERROR"
        /\ ProcedureNamedInExclusion(entities, search_results) => Factors.exclusion_check.excluded
        /\ Factors.exclusion_check.excluded => IsExclusionRejection(decision.value)
        /\ ( /\ ~Factors.exclusion_check.excluded
             /\ Factors.waiting_period_check.applicable
             /\ ~Factors.waiting_period_check.satisfied ) => IsWaitingRejection(decision.value)

\* the procedure is named in an exclusion passage and in a benefit passage,
\* with an amount, and the claim is rejected as excluded
C2_Witness ==
    /\ Decided
    /\ WellFormed(search_results)
    /\ ProcedureNamedInExclusion(entities, search_results)
    /\ Factors.coverage_analysis.coverage_found
    /\ Factors.benefit_calculation.amount > 0
    /\ IsExclusionRejection(decision.value)

\* the decision d is the outcome of branch b: b is the first branch whose
\* condition holds, and d carries b's label, reason and amount
FiresBranch(d, b) ==
    LET f == d.justification.decision_factors
        conds == BranchConditions(f.coverage_analysis, f.waiting_period_check, f.exclusion_check)
    IN /\ conds[b]
       /\ \A a \in 1..(b - 1) : ~conds[a]
       /\ d.decision = BranchDecision[b]
       /\ d.justification.primary_reason = BranchReason[b]
       /\ d.amount = (IF b = 3 THEN f.benefit_calculation.amount ELSE 0)

SameVerdict(d, e) ==
    /\ d.decision = e.decision
    /\ d.amount = e.amount
    /\ d.confidence = e.confidence
    /\ d.justification.primary_reason = e.justification.primary_reason

C4_ErrorDecision ==
    (Decided /\ ~WellFormed(search_results)) =>
        /\ ~decision.raised
        /\ decision.value.decision = "ERROR"
        /\ decision.value.amount = 0
        /\ decision.value.confidence = 0
        /\ decision.value.justification.error_details = KeyErrorText
        /\ decision.value.justification.primary_reason = "Processing error occurred"

\* a well-formed passage followed by one without text
C4_Witness ==
    /\ Decided
    /\ Len(search_results) = 2
    /\ HasKey(search_results[1], "text")
    /\ ~HasKey(search_results[2], "text")
    /\ decision.value.decision = "ERROR"

(***************************************************************************)
(* The parser on its own: parse_query applied to a text drawn from a       *)
(* bounded set, with the secondary tagger absent or loaded.                *)
(***************************************************************************)

MaxStatedAge == 125

ExampleQuery == "46-year-old male, knee surgery in Pune, 3-month-old insurance policy"

AgeForms == {"years old", "age", "year old"}

\* the text that states the age n in the given form
AgeStatement(form, n) ==
    IF form = "age" THEN "age " \o IntToStr(n) ELSE IntToStr(n) \o " " \o form

AgeStatements == [form \in AgeForms, n \in 0..MaxStatedAge |-> AgeStatement(form, n)]

\* texts in which no pattern, vocabulary term or intent keyword occurs
UnparsableQueries == {"", "hello there", "   ", "Zebra crossing ahead"}

\* a text longer than the tagger accepts
LongQuery == "Please tell me whether the treatment is included under the rider and whether any exception applies to my claim today"

OtherQueries == {
    ExampleQuery,
    "46 year old male, knee surgery in Pune, 3 month old policy",
    "Is dialysis covered for a 70 yr old woman in Delhi? claim amount Rs. 2,000",
    "what is the premium for a policy of 2 years",
    "surgery treatment condition procedure hospital policy claim coverage benefit premium, 1",
    "25 months policy",
    LongQuery,
    LongQuery \o " in Pune" }

ParseQueries ==
    {AgeStatements[form, n] : form \in AgeForms, n \in 0..MaxStatedAge}
        \cup UnparsableQueries \cup OtherQueries

Taggers == {
    [kind |-> "absent"],
    [kind |-> "ok", ents |-> <<>>],
    [kind |-> "ok", ents |-> << [label |-> "GPE", text |-> "goa"], [label |-> "DATE", text |-> "3 months"],
                                [label |-> "MONEY", text |-> "2,000"] >>] }

InitParse ==
    /\ pc = "received"
    /\ query \in ParseQueries
    /\ nlp \in Taggers
    /\ parsed = NoOutcome
    /\ entities = EmptyDict
    /\ search_results = <<>>
    /\ decision = NoOutcome
    /\ repeat = NoOutcome
    /\ env = [clock |-> 0]
    /\ response = NoOutcome

Parse ==
    /\ pc = "received"
    /\ parsed' = parse_query(query, nlp)
    /\ entities' = (IF parsed'.raised THEN entities ELSE parsed'.value.entities)
    /\ pc' = "parsed"
    /\ UNCHANGED <<query, nlp, search_results, decision, repeat, env, response>>

NextParse == Parse

SpecParse == InitParse /\ [][NextParse]_vars

(***************************************************************************)
(* The pipeline: process_query on one request, against a corpus drawn from *)
(* a bounded set.  The embedding provider, the retrieval statements and    *)
(* the commit of the query log each succeed or raise.                      *)
(***************************************************************************)

MaxChunks == 3

Chunk(chunk_id, text, section_type, filename, similarity) ==
    [chunk_id |-> chunk_id, text |-> text, section_type |-> section_type, filename |-> filename,
     similarity |-> similarity]

ChunkPool == <<
    Chunk(1, BenefitKnee.text, "benefit", "policy.pdf", 62),
    Chunk(2, WaitingKnee.text, "condition", "policy.pdf", 58),
    Chunk(3, ExclusionKnee.text, "exclusion", "policy.pdf", 45),
    Chunk(4, "Premiums are payable annually in advance.", "general", "policy.pdf", 30),
    Chunk(5, BenefitDialysis.text, "benefit", "rider.pdf", 66) >>

\* the chunks with the given ids, in storage order
CorpusOf(ids) == [k \in 1..Cardinality(ids) |-> ChunkPool[Nth(ids, k)]]

Corpora == {CorpusOf(ids) : ids \in {S \in SUBSET (1..Len(ChunkPool)) : Cardinality(S) <= MaxChunks}}

StatedQuery == "46 year old male, knee surgery in Pune, 3 month old policy"

PipelineQueries == {ExampleQuery, StatedQuery, LongQuery, "hello there"}

PipelineTaggers == {t \in Taggers : t.kind = "absent" \/ t.ents # <<>>}

\* request.max_results; 0 stands for a request without it
MaxResultsChoices == {0, 1}

DefaultTopK == 10
ResponsePassages == 5

\* request.max_results or 10
TopK(max_results) == IF max_results = 0 THEN DefaultTopK ELSE max_results

Init ==
    /\ pc = "received"
    /\ query \in PipelineQueries
    /\ nlp \in PipelineTaggers
    /\ parsed = NoOutcome
    /\ entities = EmptyDict
    /\ search_results = <<>>
    /\ decision = NoOutcome
    /\ repeat = NoOutcome
    /\ env \in [clock : {0}, corpus : Corpora, max_results : MaxResultsChoices,
                VECTOR_DB_TYPE : {"postgres", "none"}, query_embedding : {None},
                db : {"idle"}, commit : {"pending"}, query_logs : {<<>>}]
    /\ response = NoOutcome

HTTPException(status_code, detail) == [status_code |-> status_code, detail |-> detail]

\* parse_query raised: the except clause rolls back and raises HTTPException
ParseFailed ==
    /\ pc = "parsed"
    /\ parsed.raised
    /\ response' = Raised(HTTPException(500, "Failed to process query: " \o parsed.error))
    /\ pc' = "done"
    /\ UNCHANGED <<query, nlp, parsed, entities, search_results, decision, repeat, env>>

\* search_documents up to its first await
Embed ==
    /\ pc = "parsed"
    /\ ~parsed.raised
    /\ \E provider_ok \in BOOLEAN :
          env' = [env EXCEPT !.query_embedding = get_embedding(provider_ok)]
    /\ pc' = "embedded"
    /\ UNCHANGED <<query, nlp, parsed, entities, search_results, decision, repeat, response>>

\* the rest of search_documents: retrieval, boosts, filter and ranking
Retrieve ==
    /\ pc = "embedded"
    /\ \E db \in {"ok", "vector_raises", "raises"} :
          /\ env' = [env EXCEPT !.db = db]
          /\ search_results' =
                search_documents(query, entities, TopK(env.max_results), env.corpus,
                                 ~env.query_embedding.zero, env.VECTOR_DB_TYPE, db)
    /\ pc' = "ranked"
    /\ UNCHANGED <<query, nlp, parsed, entities, decision, repeat, response>>

QueryLog ==
    [query_text |-> query,
     parsed_entities |-> entities,
     search_results |-> [k \in 1..Len(search_results) |->
                            [chunk_id |-> search_results[k].chunk_id, text |-> search_results[k].text,
                             score |-> 0, section_type |-> search_results[k].section_type]],
     decision |-> decision.value.decision,
     decision_amount |-> decision.value.amount,
     confidence_score |-> decision.value.confidence,
     justification |-> decision.value.justification]

QueryResponse ==
    [decision |-> decision.value.decision,
     amount |-> decision.value.amount,
     justification |-> decision.value.justification,
     confidence_score |-> decision.value.confidence,
     search_results |-> Take(search_results, ResponsePassages),
     parsed_entities |-> entities]

\* db.add, db.commit and the response; a commit that raises is rolled back
\* and answered with HTTPException
Commit ==
    /\ pc = "decided"
    /\ \E commit_ok \in BOOLEAN :
          IF commit_ok
          THEN /\ env' = [env EXCEPT !.commit = "ok", !.query_logs = Append(@, QueryLog)]
               /\ response' = Returned(QueryResponse)
          ELSE /\ env' = [env EXCEPT !.commit = "raised"]
               /\ response' = Raised(HTTPException(500, "Failed to process query: commit"))
    /\ pc' = "done"
    /\ UNCHANGED <<query, nlp, parsed, entities, search_results, decision, repeat>>

Next == Parse \/ ParseFailed \/ Embed \/ Retrieve \/ Decide \/ Commit

Spec == Init /\ [][Next]_vars

(***************************************************************************)
(* The ranker on its own: search_documents, statement by statement, on a   *)
(* query, an entity map, a threshold and a top_k drawn from bounded sets,  *)
(* against a corpus drawn from a bounded set.  The cosine similarity that  *)
(* the store computes lies in [-1, 1].                                     *)
(***************************************************************************)

SearchQueries == {ExampleQuery, "hello there"}

SearchEntityMaps == {
    EmptyDict,
    Entry("procedure", "knee surgery"),
    Entry("age", 46) @@ Entry("procedure", "knee surgery") @@ Entry("location", "Pune")
        @@ Entry("policy_duration", [duration |-> 3, unit |-> "months", months |-> 3]) }

SearchPool == <<
    Chunk(1, BenefitKnee.text, "benefit", "policy.pdf", 62),
    Chunk(2, WaitingKnee.text, "condition", "policy.pdf", 58),
    Chunk(3, "Under this insurance policy knee surgery in Pune is covered for members aged 46 to 60.",
          "benefit", "rider.pdf", 66),
    Chunk(4, "Premiums are payable annually in advance.", "general", "policy.pdf", 74),
    Chunk(5, "Claims are settled within thirty days.", "general", "policy.pdf", 74),
    Chunk(6, "Terms are governed by the laws of India.", "general", "policy.pdf", -8) >>

SearchCorpora ==
    {[k \in 1..Cardinality(ids) |-> SearchPool[Nth(ids, k)]] :
        ids \in {S \in SUBSET (1..Len(SearchPool)) : Cardinality(S) <= MaxChunks}}

\* the similarity_threshold argument: None, or a threshold in hundredths.
\* env.call keeps the arguments as the caller passed them.
ThresholdChoices == {None, Some(50)}

TopKChoices == {1, 2}

InitSearch ==
    /\ pc = "search_called"
    /\ query \in SearchQueries
    /\ nlp = [kind |-> "absent"]
    /\ parsed = NoOutcome
    /\ entities \in SearchEntityMaps
    /\ search_results = <<>>
    /\ decision = NoOutcome
    /\ repeat = NoOutcome
    /\ \E call \in [top_k : TopKChoices, similarity_threshold : ThresholdChoices],
          corpus \in SearchCorpora, VECTOR_DB_TYPE \in {"postgres", "none"} :
          env = [call |-> call, top_k |-> call.top_k, similarity_threshold |-> call.similarity_threshold,
                 corpus |-> corpus, VECTOR_DB_TYPE |-> VECTOR_DB_TYPE, query_embedding |-> None,
                 db |-> "idle", vector_results |-> <<>>, enhanced_results |-> <<>>]
    /\ response = NoOutcome

\* the default of similarity_threshold, and get_embedding
SearchEmbed ==
    /\ pc = "search_called"
    /\ \E provider_ok \in BOOLEAN :
          env' = [env EXCEPT !.similarity_threshold = IF @ = None THEN Some(SIMILARITY_THRESHOLD) ELSE @,
                             !.query_embedding = get_embedding(provider_ok)]
    /\ pc' = "search_embedded"
    /\ UNCHANGED <<query, nlp, parsed, entities, search_results, decision, repeat, response>>

\* search_results = await self._vector_search(query_embedding, top_k * 2)
SearchVector ==
    /\ pc = "search_embedded"
    /\ \E db \in {"ok", "vector_raises", "raises"} :
          env' = [env EXCEPT !.db = db,
                             !.vector_results =
                                _vector_search(env.corpus, env.query_embedding, env.top_k * 2,
                                               env.VECTOR_DB_TYPE, db)]
    /\ pc' = "search_retrieved"
    /\ UNCHANGED <<query, nlp, parsed, entities, search_results, decision, repeat, response>>

\* enhanced_results = await self._enhance_with_keyword_search(...)
SearchEnhance ==
    /\ pc = "search_retrieved"
    /\ env' = [env EXCEPT !.enhanced_results = _enhance_with_keyword_search(query, entities, env.vector_results)]
    /\ pc' = "search_enhanced"
    /\ UNCHANGED <<query, nlp, parsed, entities, search_results, decision, repeat, response>>

\* return self._rank_and_filter_results(...)
SearchRank ==
    /\ pc = "search_enhanced"
    /\ search_results' =
          _rank_and_filter_results(env.enhanced_results, entities, env.similarity_threshold.v, env.top_k)
    /\ pc' = "search_returned"
    /\ UNCHANGED <<query, nlp, parsed, entities, decision, repeat, env, response>>

NextSearch == SearchEmbed \/ SearchVector \/ SearchEnhance \/ SearchRank

SpecSearch == InitSearch /\ [][NextSearch]_vars

(***************************************************************************)
(* Two requests in flight: process_query runs once per request, and the    *)
(* runs interleave where the handler awaits.  The handler's locals belong  *)
(* to the request; query_processor, search_service and decision_engine     *)
(* (queries.py lines 19-21), the settings and the corpus are shared.       *)
(* pc, query, parsed, entities, search_results, decision and response are  *)
(* functions of the request here.                                          *)
(***************************************************************************)

Requests == {1, 2}

ConcurrentQueries == {ExampleQuery, StatedQuery, LongQuery}

ConcurrentCorpus == CorpusOf({1, 2, 5})

\* mutant: the value is kept on an attribute of the shared service object,
\* where every request finds it
Local_OnSharedObject(frame, r, value) == [o \in DOMAIN frame |-> value]

\* an assignment to a local of the frame of request r
Local(frame, r, value) == [frame EXCEPT ![r] = value]

\* env.at_start keeps what the shared objects held when the process started
InitConcurrent ==
    /\ pc = [r \in Requests |-> "received"]
    /\ query \in [Requests -> ConcurrentQueries]
    /\ nlp \in PipelineTaggers
    /\ parsed = [r \in Requests |-> NoOutcome]
    /\ entities = [r \in Requests |-> EmptyDict]
    /\ search_results = [r \in Requests |-> <<>>]
    /\ decision = [r \in Requests |-> NoOutcome]
    /\ repeat = NoOutcome
    /\ env = [clock |-> 0, corpus |-> ConcurrentCorpus, VECTOR_DB_TYPE |-> "postgres", query_logs |-> <<>>,
              at_start |-> [nlp |-> nlp, corpus |-> ConcurrentCorpus, VECTOR_DB_TYPE |-> "postgres"],
              request |-> [r \in Requests |->
                             [max_results |-> 0, query_embedding |-> None, db |-> "idle", commit |-> "pending"]]]
    /\ response = [r \in Requests |-> NoOutcome]

\* parsed_query = await query_processor.parse_query(request.query)
ConcurrentParse(r) ==
    /\ pc[r] = "received"
    /\ \E outcome \in {parse_query(query[r], nlp)} :
          /\ parsed' = Local(parsed, r, outcome)
          /\ entities' = Local(entities, r, IF outcome.raised THEN entities[r] ELSE outcome.value.entities)
    /\ pc' = [pc EXCEPT ![r] = "parsed"]
    /\ UNCHANGED <<query, nlp, search_results, decision, repeat, env, response>>

\* parse_query raised: the except clause answers with HTTPException
ConcurrentParseFailed(r) ==
    /\ pc[r] = "parsed"
    /\ parsed[r].raised
    /\ response' = Local(response, r, Raised(HTTPException(500, "Failed to process query: " \o parsed[r].error)))
    /\ pc' = [pc EXCEPT ![r] = "done"]
    /\ UNCHANGED <<query, nlp, parsed, entities, search_results, decision, repeat, env>>

\* search_documents up to the embedding
ConcurrentEmbed(r) ==
    /\ pc[r] = "parsed"
    /\ ~parsed[r].raised
    /\ \E provider_ok \in BOOLEAN :
          env' = [env EXCEPT !.request[r].query_embedding = get_embedding(provider_ok)]
    /\ pc' = [pc EXCEPT ![r] = "embedded"]
    /\ UNCHANGED <<query, nlp, parsed, entities, search_results, decision, repeat, response>>

\* the rest of search_documents: retrieval, boosts, filter and ranking
ConcurrentRetrieve(r) ==
    /\ pc[r] = "embedded"
    /\ \E db \in {"ok", "vector_raises"} :
          /\ env' = [env EXCEPT !.request[r].db = db]
          /\ search_results' =
                Local(search_results, r,
                      search_documents(query[r], entities[r], TopK(env.request[r].max_results), env.corpus,
                                       ~env.request[r].query_embedding.zero, env.VECTOR_DB_TYPE, db))
    /\ pc' = [pc EXCEPT ![r] = "ranked"]
    /\ UNCHANGED <<query, nlp, parsed, entities, decision, repeat, response>>

\* decision_result = await decision_engine.make_decision(...)
ConcurrentDecide(r) ==
    /\ pc[r] = "ranked"
    /\ decision' = Local(decision, r, make_decision(query[r], entities[r], search_results[r], env.clock))
    /\ env' = [env EXCEPT !.clock = @ + 1]
    /\ pc' = [pc EXCEPT ![r] = "decided"]
    /\ UNCHANGED <<query, nlp, parsed, entities, search_results, repeat, response>>

\* db.add, db.commit and the response
ConcurrentCommit(r) ==
    /\ pc[r] = "decided"
    /\ env' = [env EXCEPT !.request[r].commit = "ok",
                          !.query_logs = Append(@, [query_text |-> query[r],
                                                    decision |-> decision[r].value.decision])]
    /\ response' =
          Local(response, r,
                Returned([decision |-> decision[r].value.decision,
                          amount |-> decision[r].value.amount,
                          justification |-> decision[r].value.justification,
                          confidence_score |-> decision[r].value.confidence,
                          search_results |-> Take(search_results[r], ResponsePassages),
                          parsed_entities |-> entities[r]]))
    /\ pc' = [pc EXCEPT ![r] = "done"]
    /\ UNCHANGED <<query, nlp, parsed, entities, search_results, decision, repeat>>

NextConcurrent ==
    \E r \in Requests :
        \/ ConcurrentParse(r)
        \/ ConcurrentParseFailed(r)
        \/ ConcurrentEmbed(r)
        \/ ConcurrentRetrieve(r)
        \/ ConcurrentDecide(r)
        \/ ConcurrentCommit(r)

SpecConcurrent == InitConcurrent /\ [][NextConcurrent]_vars

(***************************************************************************)
(* Properties of parse_query                                               *)
(***************************************************************************)

Parsed == pc = "parsed" /\ ~parsed.raised

\* C8: for every age N in 0..120, a query that states N in a form the age
\* patterns accept ("N years old", "age N") yields entities.age = N; and a
\* number outside 0..120 is never reported as the age.
C8_AgeRoundTrip ==
    Parsed =>
        /\ \A form \in AgeForms, n \in MinAge..MaxAge :
              query = AgeStatements[form, n] =>
                  HasKey(parsed.value.entities, "age") /\ parsed.value.entities["age"] = n
        /\ HasKey(parsed.value.entities, "age") => parsed.value.entities["age"] \in MinAge..MaxAge

\* the number of terms of the set that occur in the text
TermHits(terms, text) == Cardinality({term \in terms : Contains(text, term)})

HasDigit(text) == \E i \in 1..Len(text) : IsDigit(Ch(text, i))
HasComma(text) == \E i \in 1..Len(text) : Ch(text, i) = ","

\* C9: the parser confidence is 0.5 + 0.1 x (number of entities) + 0.05 x
\* (medical-term hits) + 0.05 x (insurance-term hits) + 0.1 if the text has a
\* digit + 0.1 if it has a comma, clamped to 1; it always lies in [0,1].
\* Confidences are in hundredths.
C9_ParserConfidence ==
    Parsed =>
        /\ parsed.value.confidence \in 0..100
        /\ parsed.value.confidence =
              Min(100, 50 + 10 * Cardinality(DOMAIN parsed.value.entities)
                          + 5 * TermHits({"surgery", "treatment", "condition", "procedure", "hospital"}, Lower(query))
                          + 5 * TermHits({"policy", "claim", "coverage", "benefit", "premium"}, Lower(query))
                          + (IF HasDigit(query) THEN 10 ELSE 0)
                          + (IF HasComma(query) THEN 10 ELSE 0))

\* a text whose unclamped sum exceeds 1 and whose confidence is 1
C9_Witness ==
    /\ Parsed
    /\ query = ExampleQuery
    /\ Cardinality(DOMAIN parsed.value.entities) = 3
    /\ parsed.value.confidence = 100

\* C10: parse_query never fails: for every input text it returns a
\* ParsedQuery, and a text in which no pattern, vocabulary term or intent
\* keyword matches (the tagger adding nothing) yields an empty entity map and
\* the intent general_inquiry.
C10_ParseNeverFails ==
    pc = "parsed" =>
        /\ ~parsed.raised
        /\ (query \in UnparsableQueries /\ (nlp.kind = "ok" => nlp.ents = <<>>)) =>
              /\ parsed.value.entities = EmptyDict
              /\ parsed.value.intent = "general_inquiry"

(***************************************************************************)
(* Properties of the pipeline                                              *)
(***************************************************************************)

\* C5: the pipeline parse -> retrieve/rank -> adjudicate always returns a
\* Decision to its caller and never throws, whatever the query text and
\* whatever fails in the embedding or retrieval collaborators.  (A commit of
\* the query log that raises is the storage collaborator's failure and is
\* left aside.)
C5_AlwaysReturnsDecision ==
    (pc = "done" /\ env.commit # "raised") =>
        /\ ~response.raised
        /\ response.value.decision \in Labels

\* some ranked passage is a benefit clause naming the procedure
HasBenefitClause(rs, procedure) ==
    \E k \in 1..Len(rs) : rs[k].section_type = "benefit" /\ Contains(Lower(rs[k].text), procedure)

\* some ranked passage contains the words
HasClause(rs, words) == \E k \in 1..Len(rs) : Contains(Lower(rs[k].text), words)

NoExclusionClause(rs) == \A k \in 1..Len(rs) : rs[k].section_type # "exclusion"

\* C6: for the query "46-year-old male, knee surgery in Pune, 3-month-old
\* insurance policy" against passages with a benefit clause for knee surgery,
\* a waiting-period clause of 24 months and no exclusion clause, the parser
\* yields age 46, gender male, procedure knee surgery, location Pune and
\* policy_duration.months 3, the waiting-period check is applicable and not
\* satisfied, and the decision is REJECTED with amount 0 and a primary reason
\* mentioning the waiting period.
C6_ExampleRejected ==
    ( /\ pc = "decided"
      /\ query = ExampleQuery
      /\ HasBenefitClause(search_results, "knee surgery")
      /\ HasClause(search_results, "waiting period of 24 months")
      /\ NoExclusionClause(search_results) ) =>
        /\ HasKey(entities, "age") /\ entities["age"] = 46
        /\ HasKey(entities, "gender") /\ entities["gender"] = "male"
        /\ HasKey(entities, "procedure") /\ entities["procedure"] = "knee surgery"
        /\ HasKey(entities, "location") /\ entities["location"] = "Pune"
        /\ HasKey(entities, "policy_duration") /\ entities["policy_duration"].months = 3
        /\ Factors.waiting_period_check.applicable
        /\ ~Factors.waiting_period_check.satisfied
        /\ decision.value.decision = "REJECTED"
        /\ decision.value.amount = 0
        /\ Contains(Lower(decision.value.justification.primary_reason), "waiting period")

\* the ranked passages of C7: a benefit clause for knee surgery stating
\* "₹50,000", no waiting-period clause and no exclusion clause
C7_Passages(rs) ==
    /\ \E k \in 1..Len(rs) :
          /\ rs[k].section_type = "benefit"
          /\ Contains(Lower(rs[k].text), "knee surgery")
          /\ Contains(rs[k].text, "₹50,000")
    /\ ~HasClause(rs, "wait")
    /\ NoExclusionClause(rs)

\* C7: for the same query, when the ranked passages hold no waiting-period
\* clause, no exclusion clause and a benefit clause stating "₹50,000" for knee
\* surgery, coverage_found is true and the decision is APPROVED with amount
\* 50000.0.
C7_ExampleApproved ==
    (pc \in {"decided", "done"} /\ query = ExampleQuery /\ C7_Passages(search_results)) =>
        /\ Factors.coverage_analysis.coverage_found
        /\ decision.value.decision = "APPROVED"
        /\ decision.value.amount = Rupees(50000)
        /\ (pc = "done" /\ ~response.raised) =>
              response.value.decision = "APPROVED" /\ response.value.amount = Rupees(50000)

\* the request was answered with the approval
C7_Witness ==
    /\ pc = "done"
    /\ query = ExampleQuery
    /\ C7_Passages(search_results)
    /\ ~response.raised
    /\ response.value.decision = "APPROVED"
    /\ response.value.amount = Rupees(50000)

(***************************************************************************)
(* Properties of search_documents                                          *)
(***************************************************************************)

SearchReturned == pc = "search_returned"

\* the threshold the call asks for: the default 0.7 when the caller passes none
AskedThreshold ==
    IF env.call.similarity_threshold = None THEN 70 ELSE env.call.similarity_threshold.v

\* the boosted score of a candidate is a number, and at least the threshold
AtOrAbove(score, threshold) == score # NaN /\ score >= threshold

\* C11: for every query, entity map, threshold and top_k, search_documents
\* returns a list of at most top_k passages, each of which was among the
\* retrieved candidates and has a boosted score >= the similarity threshold
\* (default 0.7); a candidate whose boosted score is below the threshold is
\* never returned.
C11_AtMostTopKAboveThreshold ==
    SearchReturned =>
        /\ Len(search_results) <= env.call.top_k
        /\ \A k \in 1..Len(search_results) :
              /\ \E i \in 1..Len(env.vector_results) :
                    env.vector_results[i].chunk_id = search_results[k].chunk_id
              /\ AtOrAbove(search_results[k].similarity_score, AskedThreshold)
        /\ \A i \in 1..Len(env.enhanced_results) :
              ~AtOrAbove(env.enhanced_results[i].similarity_score, AskedThreshold) =>
                  \A k \in 1..Len(search_results) :
                      search_results[k].chunk_id # env.enhanced_results[i].chunk_id

\* under the default threshold, two candidates are retrieved for top_k = 1,
\* both pass the filter, and one passage is returned
C11_Witness ==
    /\ SearchReturned
    /\ env.call.similarity_threshold = None
    /\ env.call.top_k = 1
    /\ Len(env.vector_results) = 2
    /\ \A i \in 1..2 : AtOrAbove(env.enhanced_results[i].similarity_score, 70)
    /\ Len(search_results) = 1

\* the candidates have their boosted scores
SearchEnhanced == pc \in {"search_enhanced", "search_returned"}

\* the sum of the three boosts of an enhanced candidate
BoostSum(result) ==
    result.boost_factors.keyword_boost + result.boost_factors.section_boost + result.boost_factors.entity_boost

\* C12: for every retrieved passage, the boosted score equals
\* min(base + keyword_boost + section_boost + entity_boost, 1.0) and always
\* lies in [0,1].  Scores are in hundredths.
C12_BoostedScoreInUnitInterval ==
    SearchEnhanced =>
        /\ Len(env.enhanced_results) = Len(env.vector_results)
        /\ \A i \in 1..Len(env.enhanced_results) :
              /\ env.enhanced_results[i].similarity_score
                    = Min(env.vector_results[i].similarity_score + BoostSum(env.enhanced_results[i]), 100)
              /\ env.enhanced_results[i].similarity_score \in 0..100

\* C13: the boost caps hold for any query, entity map and passage:
\* keyword_boost is in [0, 0.2], section_boost is in [0, 0.3] and entity_boost
\* is in [0, 0.25].  Boosts are in hundredths.
C13_BoostCaps ==
    SearchEnhanced =>
        \A i \in 1..Len(env.enhanced_results) :
            /\ env.enhanced_results[i].boost_factors.keyword_boost \in 0..20
            /\ env.enhanced_results[i].boost_factors.section_boost \in 0..30
            /\ env.enhanced_results[i].boost_factors.entity_boost \in 0..25

\* a passage that names the procedure, the location and the age (0.15 + 0.05
\* + 0.1) and in which five words and three bigrams of the query occur (0.1 +
\* 0.15): both boosts are at their caps
C13_Witness ==
    /\ SearchEnhanced
    /\ query = ExampleQuery
    /\ \E i \in 1..Len(env.enhanced_results) :
          /\ Contains(Lower(env.enhanced_results[i].text), "knee surgery in pune")
          /\ Contains(Lower(env.enhanced_results[i].text), "insurance policy")
          /\ Contains(env.enhanced_results[i].text, "46")
          /\ {"procedure", "location", "age"} \subseteq DOMAIN entities
          /\ env.enhanced_results[i].boost_factors.keyword_boost = 20
          /\ env.enhanced_results[i].boost_factors.entity_boost = 25

\* the position of a returned passage among the enhanced candidates
RetrievalRank(result) ==
    CHOOSE i \in 1..Len(env.enhanced_results) : env.enhanced_results[i].chunk_id = result.chunk_id

\* the positions of the enhanced candidates that pass the filter
Passing == {i \in 1..Len(env.enhanced_results) : AtOrAbove(env.enhanced_results[i].similarity_score, AskedThreshold)}

\* the positions of the enhanced candidates that are returned
ReturnedRanks == {RetrievalRank(search_results[k]) : k \in 1..Len(search_results)}

\* C14: the list returned by the ranker is the threshold-filtered candidates
\* in stable descending order of boosted score, truncated to the first top_k:
\* scores are non-increasing along the list, passages with equal boosted
\* score keep their retrieval order, and no omitted passage that passed the
\* filter has a higher score than a returned one.
C14_StableDescendingTopK ==
    SearchReturned =>
        /\ ReturnedRanks \subseteq Passing
        /\ Len(search_results) = Min(env.call.top_k, Cardinality(Passing))
        /\ \A k \in 1..(Len(search_results) - 1) :
              /\ search_results[k].similarity_score >= search_results[k + 1].similarity_score
              /\ search_results[k].similarity_score = search_results[k + 1].similarity_score =>
                    RetrievalRank(search_results[k]) < RetrievalRank(search_results[k + 1])
        /\ \A i \in Passing \ ReturnedRanks :
              \A k \in 1..Len(search_results) :
                  /\ env.enhanced_results[i].similarity_score <= search_results[k].similarity_score
                  /\ env.enhanced_results[i].similarity_score = search_results[k].similarity_score =>
                        RetrievalRank(search_results[k]) < i

\* the sort moved a passage ahead of one retrieved before it, and of two
\* passages with the same score the one retrieved first is returned and the
\* other is cut off by top_k
C14_Witness ==
    /\ SearchReturned
    /\ Len(search_results) = 2
    /\ RetrievalRank(search_results[1]) > RetrievalRank(search_results[2])
    /\ \E i \in Passing \ ReturnedRanks :
          env.enhanced_results[i].similarity_score = search_results[2].similarity_score

\* vector retrieval is unavailable: the vector store is not configured, or
\* the vector query raised
VectorUnavailable ==
    /\ pc \in {"search_retrieved", "search_enhanced", "search_returned"}
    /\ env.VECTOR_DB_TYPE # "postgres" \/ env.db \in {"vector_raises", "raises"}

\* C15: when vector retrieval is unavailable (the vector store is not
\* configured, or the vector query raises), the ranker falls back to the
\* recent-passage listing limited to 2 x top_k, gives each such passage base
\* similarity 0.5 before boosts, and continues the pipeline instead of
\* aborting: the boosts and the ranking go on with the listed passages (with
\* none when the listing raises as well), and the caller gets a list.
C15_FallbackListing ==
    VectorUnavailable =>
        /\ Len(env.vector_results) =
              (IF env.db = "raises" THEN 0 ELSE Min(2 * env.call.top_k, Len(env.corpus)))
        /\ \A i \in 1..Len(env.vector_results) :
              /\ env.vector_results[i].chunk_id = env.corpus[i].chunk_id
              /\ env.vector_results[i].text = env.corpus[i].text
              /\ env.vector_results[i].similarity_score = 50
        /\ pc \in {"search_enhanced", "search_returned"} =>
              /\ Len(env.enhanced_results) = Len(env.vector_results)
              /\ \A i \in 1..Len(env.enhanced_results) :
                    env.enhanced_results[i].similarity_score = Min(50 + BoostSum(env.enhanced_results[i]), 100)
        /\ pc = "search_returned" =>
              /\ ReturnedRanks \subseteq Passing
              /\ Len(search_results) = Min(env.call.top_k, Cardinality(Passing))

\* the vector query raised, the listing stopped at 2 x top_k passages short
\* of the corpus, and a listed passage is returned with 0.5 plus its boosts
C15_Witness ==
    /\ pc = "search_returned"
    /\ env.VECTOR_DB_TYPE = "postgres"
    /\ env.db = "vector_raises"
    /\ Len(env.corpus) = 3
    /\ Len(env.vector_results) = 2
    /\ env.call.similarity_threshold = None
    /\ Len(search_results) = 1
    /\ search_results[1].similarity_score \in 70..99

\* C16: if the embedding provider fails, get_embedding does not raise but
\* returns an all-zero vector of the model's dimensionality (1536), and
\* search_documents still completes without special-casing it: it returns at
\* most top_k passages at or above the threshold if any candidate is, and an
\* empty list otherwise.
C16_ZeroVectorFallback ==
    (pc # "search_called" /\ env.query_embedding.zero) =>
        /\ env.query_embedding.dimension = 1536
        /\ SearchReturned =>
              /\ Len(search_results) <= env.call.top_k
              /\ \A k \in 1..Len(search_results) :
                    AtOrAbove(search_results[k].similarity_score, AskedThreshold)
              /\ search_results = <<>> <=> Passing = {}

\* the provider failed, the store ranked two passages against the zero
\* vector, none has a score, and the list is empty
C16_Witness ==
    /\ SearchReturned
    /\ env.query_embedding.zero
    /\ env.VECTOR_DB_TYPE = "postgres"
    /\ env.db = "ok"
    /\ Len(env.enhanced_results) = 2
    /\ \A i \in 1..2 : env.enhanced_results[i].similarity_score = NaN
    /\ search_results = <<>>

(***************************************************************************)
(* Properties of concurrent requests                                       *)
(***************************************************************************)

\* the outcome of make_decision without the time of the call
Timeless(outcome) ==
    IF outcome.raised THEN outcome
    ELSE [outcome EXCEPT !.value.processing_details.decision_timestamp = 0]

\* process_query on a request that is the only one: the stages one after the
\* other, on the shared objects as they are at start-up
AloneRun(q, tagger, provider_ok, db) ==
    By(parse_query(q, tagger), LAMBDA outcome :
        IF outcome.raised
        THEN [parsed |-> outcome, entities |-> EmptyDict, search_results |-> <<>>, decision |-> NoOutcome]
        ELSE By(search_documents(q, outcome.value.entities, TopK(0), ConcurrentCorpus, provider_ok, "postgres", db),
                LAMBDA ranked :
                [parsed |-> outcome, entities |-> outcome.value.entities, search_results |-> ranked,
                 decision |-> Timeless(make_decision(q, outcome.value.entities, ranked, 0))]))

\* the runs alone, for every query, tagger and answer of the collaborators
AloneRuns ==
    [q \in ConcurrentQueries, tagger \in PipelineTaggers, provider_ok \in BOOLEAN, db \in {"ok", "vector_raises"} |->
        AloneRun(q, tagger, provider_ok, db)] @@ EmptyDict

\* the run alone of request r, the collaborators answering as they answer r
\* (as they may, where r has not called them yet)
Alone(r) ==
    AloneRuns[query[r], env.at_start.nlp,
              IF env.request[r].query_embedding = None THEN TRUE ELSE ~env.request[r].query_embedding.zero,
              IF env.request[r].db = "idle" THEN "ok" ELSE env.request[r].db]

NamesListedCity(text) == \E k \in 1..Len(cities) : Contains(Lower(text), cities[k])

\* the two entity maps agree on the key: absent in both, or the same value
SameEntity(a, b, key) ==
    /\ HasKey(a, key) <=> HasKey(b, key)
    /\ HasKey(a, key) => a[key] = b[key]

\* C18: the absence of the secondary tagger does not change any other
\* extraction: for every query text the entities age, gender, procedure,
\* policy_duration and amount (and location, when the text names a city of
\* the fixed list) are the same with the tagger as without it, and the tagger
\* only adds the lists dates, organizations and money_mentions.
C18_TaggerOnlyAddsLists ==
    pc = "parsed" =>
        \A without \in {parse_query(query, [kind |-> "absent"])} :
            /\ parsed.raised <=> without.raised
            /\ ~parsed.raised =>
                  /\ \A key \in {"age", "gender", "procedure", "policy_duration", "amount"} :
                        SameEntity(parsed.value.entities, without.value.entities, key)
                  /\ NamesListedCity(query) =>
                        SameEntity(parsed.value.entities, without.value.entities, "location")
                  /\ (DOMAIN parsed.value.entities) \ (DOMAIN without.value.entities)
                        \subseteq {"dates", "organizations", "money_mentions"}
                                  \cup (IF NamesListedCity(query) THEN {} ELSE {"location"})

\* what holds of the code: the same, among the texts the tagger accepts
C18_TaggerOnlyAddsLists_Accepted ==
    (pc = "parsed" /\ Len(_normalize_query(query)) <= NlpMaxLength) => C18_TaggerOnlyAddsLists

\* the tagger is loaded and finds entities, the text names a listed city, and
\* the tagger's lists are there beside the entities of the patterns
C18_Witness ==
    /\ Parsed
    /\ query = StatedQuery
    /\ NlpLoaded(nlp) /\ nlp.ents # <<>>
    /\ parsed.value.entities["location"] = "Pune"
    /\ {"age", "gender", "procedure", "policy_duration", "dates", "money_mentions"}
          \subseteq DOMAIN parsed.value.entities

(***************************************************************************)
(* Properties of _check_waiting_periods                                    *)
(***************************************************************************)

\* the waiting-period check looks at the passages: the decision was made
\* from well-formed passages and the entities hold a policy duration
WaitingChecked == Decided /\ WellFormed(search_results) /\ HasKey(entities, "policy_duration")

\* the passage mentions the waiting period and a period pattern matches in it
ProducesMatch(ents, result) ==
    /\ ProcedureOf(ents) # ""
    /\ Contains(Lower(result.text), "waiting period") \/ Contains(Lower(result.text), "wait")
    /\ FirstPeriodMatches(Lower(result.text), 1) # <<>>

\* the positions of the ranked passages that produce a duration match
MatchingPositions == {k \in 1..Len(search_results) : ProducesMatch(entities, search_results[k])}

\* C19: the waiting-period check stops at the first passage producing a
\* duration match and does not aggregate several waiting-period clauses:
\* applicable, required_period, satisfied and the recorded evidence are those
\* of that first passage alone, and later waiting-period passages of the
\* ranked list do not change the result.
C19_FirstPassageDecides ==
    (WaitingChecked /\ MatchingPositions # {}) =>
        \A first \in {Least(MatchingPositions)} :
            Factors.waiting_period_check
                = _check_waiting_periods(entities, <<search_results[first]>>).value

\* what holds of the code: every matching passage is applied in rank order,
\* the last one leaving required_period, each one adding a detail and a
\* supporting clause, and satisfied being true when any of them is satisfied
C19_EveryMatchingPassageApplied ==
    WaitingChecked =>
        \A check \in {Factors.waiting_period_check} :
            /\ check.applicable <=> MatchingPositions # {}
            /\ Len(check.details) = Cardinality(MatchingPositions)
            /\ Len(check.supporting_clauses) = Cardinality(MatchingPositions)
            /\ MatchingPositions # {} =>
                  \A last \in {Least({k \in MatchingPositions : \A j \in MatchingPositions : j <= k})} :
                      check.required_period
                          = _check_waiting_periods(entities, <<search_results[last]>>).value.required_period
            /\ check.satisfied <=>
                  \E k \in MatchingPositions :
                      _check_waiting_periods(entities, <<search_results[k]>>).value.satisfied

\* a satisfied 90-day clause ranked before an unsatisfied 24-month clause: the
\* check reports the later clause's 24 months, and reports them as satisfied
C19_LaterPassageChangesResult ==
    /\ WaitingChecked
    /\ search_results = <<BenefitDialysis, WaitingKnee>>
    /\ Factors.waiting_period_check.required_period = Some(Months(24))
    /\ Factors.waiting_period_check.current_period = Some(Months(3))
    /\ Factors.waiting_period_check.satisfied
    /\ Len(Factors.waiting_period_check.supporting_clauses) = 2

\* the number of the first period pattern, in the order months, years, days,
\* that matches in the text
FirstPeriodPattern(text_lower) ==
    Least({n \in 1..Len(period_patterns) : FindAll(period_patterns[n], text_lower) # <<>>})

\* the first number that the n-th period pattern captures, normalized to
\* months by the unit of that pattern: months as they are, years x 12,
\* days / 30 (in thirtieths of a month)
NormalizedByPattern(text_lower, n) ==
    \* the bound variable is evaluated once
    CHOOSE months \in { (CASE n = 1 -> Months(duration)
                           [] n = 2 -> Months(duration * 12)
                           [] n = 3 -> duration) :
                        duration \in {ParseInt(FindAll(period_patterns[n], text_lower)[1])} } : TRUE

\* C20: for a passage mentioning "waiting period" or "wait" (the entities
\* holding a procedure and a policy duration), the required period is the
\* first number captured by the first matching pattern in the order months,
\* years, days, normalized to months by that pattern's unit, and satisfied is
\* true exactly when the policy's current months >= the required months.  The
\* passage is the only one of the ranked list that produces a match.
C20_RequiredPeriodByPatternUnit ==
    (WaitingChecked /\ Cardinality(MatchingPositions) = 1) =>
        \A text_lower \in {Lower(search_results[Least(MatchingPositions)].text)} :
            \A required \in {NormalizedByPattern(text_lower, FirstPeriodPattern(text_lower))} :
                /\ Factors.waiting_period_check.applicable
                /\ Factors.waiting_period_check.required_period = Some(required)
                /\ Factors.waiting_period_check.current_period = Some(Months(entities["policy_duration"].months))
                /\ Factors.waiting_period_check.satisfied
                      <=> Months(entities["policy_duration"].months) >= required

\* what holds of the code: the number is that of the first matching pattern,
\* but the unit is read off the whole passage text ("year" anywhere in it
\* gives x 12, else "day" anywhere gives / 30)
C20_RequiredPeriodByTextUnit ==
    (WaitingChecked /\ Cardinality(MatchingPositions) = 1) =>
        \A text_lower \in {Lower(search_results[Least(MatchingPositions)].text)} :
            \A duration \in {ParseInt(FindAll(period_patterns[FirstPeriodPattern(text_lower)], text_lower)[1])} :
                \A required \in {IF Contains(text_lower, "year") THEN Months(duration * 12)
                                 ELSE IF Contains(text_lower, "day") THEN duration
                                 ELSE Months(duration)} :
                    /\ Factors.waiting_period_check.required_period = Some(required)
                    /\ Factors.waiting_period_check.satisfied
                          <=> Months(entities["policy_duration"].months) >= required

\* a clause of 2 months that also holds the word "year": the policy is 3
\* months old, and the check requires 24 months and is not satisfied
C20_MonthsReadAsYears ==
    /\ WaitingChecked
    /\ search_results = <<WaitingFirstYear>>
    /\ entities["policy_duration"].months = 3
    /\ Factors.waiting_period_check.required_period = Some(Months(24))
    /\ ~Factors.waiting_period_check.satisfied

\* the waiting-period check of the first n ranked passages
WaitingCheckOfFirst(n) == _check_waiting_periods(entities, SubSeq(search_results, 1, n)).value

\* the months that the k-th ranked passage, taken alone, requires
RequiredBy(k) == _check_waiting_periods(entities, <<search_results[k]>>).value.required_period.v

\* C21: in the waiting-period check the flags applicable and satisfied are
\* only ever set to true while the ranked passages are scanned and are never
\* reset by a later passage; hence a "waiting period not satisfied" rejection
\* occurs only if at least one passage yields a duration and every passage
\* that yields one requires more months than the policy has.
C21_WaitingFlagsNeverReset ==
    (Decided /\ WellFormed(search_results)) =>
        /\ \A n \in 0..Len(search_results) :
              \A before \in {WaitingCheckOfFirst(n)} :
                  /\ before.applicable => Factors.waiting_period_check.applicable
                  /\ before.satisfied => Factors.waiting_period_check.satisfied
        /\ IsWaitingRejection(decision.value) =>
              /\ HasKey(entities, "policy_duration")
              /\ MatchingPositions # {}
              /\ \A k \in MatchingPositions :
                    RequiredBy(k) > Months(entities["policy_duration"].months)

\* two clauses that both require more than the policy's 3 months, and the
\* rejection for the waiting period
C21_Witness ==
    /\ Decided
    /\ search_results = <<WaitingKnee, WaitingFirstYear>>
    /\ HasKey(entities, "policy_duration")
    /\ entities["policy_duration"].months = 3
    /\ Cardinality(MatchingPositions) = 2
    /\ IsWaitingRejection(decision.value)

(***************************************************************************)
(* Properties of _generate_final_decision                                  *)
(***************************************************************************)

\* C22: make_decision never returns the label NEEDS_REVIEW: for every entity
\* map and passage list the label is APPROVED, REJECTED or ERROR, because the
\* "coverage found" and "coverage not found" branches that precede the
\* NEEDS_REVIEW branch are exhaustive.
C22_NeverNeedsReview ==
    Decided =>
        /\ decision.value.decision \in {"APPROVED", "REJECTED", "ERROR"}
        /\ decision.value.decision # "ERROR" => Factors.coverage_analysis.coverage_found \in BOOLEAN

\* neither exclusion nor waiting period nor coverage: the last branch before
\* NEEDS_REVIEW is the one that runs
C22_Witness ==
    /\ Decided
    /\ decision.value.decision = "REJECTED"
    /\ decision.value.justification.primary_reason = "Procedure not covered under policy"
    /\ ~Factors.exclusion_check.excluded
    /\ ~Factors.waiting_period_check.applicable
    /\ ~Factors.coverage_analysis.coverage_found
    /\ search_results # <<>>

\* the passage is a benefit or coverage clause whose text holds the procedure
\* or one of its variations
CoversProcedure(procedure, result) ==
    /\ GetOr(result, "section_type", "") \in {"benefit", "coverage"}
    /\ \E v \in 1..Len(_get_procedure_variations(procedure)) :
          Contains(Lower(result.text), _get_procedure_variations(procedure)[v])

\* C23: make_decision returns APPROVED only if the entity map holds a
\* non-empty procedure and some ranked passage with section_type benefit or
\* coverage contains that procedure or one of its variations; a query from
\* which no procedure was extracted is never approved, whatever the passages
\* say.
C23_ApprovedOnlyIfCovered ==
    Decided =>
        /\ decision.value.decision = "APPROVED" =>
              /\ ProcedureOf(entities) # ""
              /\ \E k \in 1..Len(search_results) : CoversProcedure(ProcedureOf(entities), search_results[k])
        /\ ~HasKey(entities, "procedure") => decision.value.decision # "APPROVED"

\* an approval on a benefit clause that names the procedure
C23_Witness ==
    /\ Decided
    /\ decision.value.decision = "APPROVED"
    /\ entities["procedure"] = "knee surgery"
    /\ search_results = <<BenefitKnee>>

(***************************************************************************)
(* Properties of the analyses of make_decision                             *)
(***************************************************************************)

\* the decision was made from well-formed passages: the four analyses returned
Analysed == Decided /\ WellFormed(search_results)

\* the age thresholds the text states, one for each of the forms "above N
\* years", "over N years", "N years and above" that occurs in it: the first
\* number the form matches
AgeThresholds(text_lower) ==
    { ParseInt(FindAll(age_patterns[n], text_lower)[1]) :
        n \in {m \in 1..Len(age_patterns) : FindAll(age_patterns[m], text_lower) # <<>>} }

\* the passage is an exclusion clause that names the procedure or states an
\* age threshold below the age
Excludes(ents, result) ==
    /\ result.section_type = "exclusion"
    /\ \/ ProcedureOf(ents) # "" /\ Contains(Lower(result.text), ProcedureOf(ents))
       \/ HasKey(ents, "age") /\ \E limit \in AgeThresholds(Lower(result.text)) : ents["age"] > limit

C24_AtThreshold ==
    /\ Analysed
    /\ search_results = <<ExclusionKnee>>
    /\ ProcedureOf(entities) = "heart surgery"
    /\ HasKey(entities, "age") /\ entities["age"] = 60
    /\ ~Factors.exclusion_check.excluded

\* the variations of a procedure name: "surgery" read as "operation" or
\* "procedure", and the fixed terms that go with "knee" and with "heart"
VariationsOf(procedure) ==
    {procedure}
    \cup (IF Contains(procedure, "surgery")
          THEN {Replace(procedure, "surgery", "operation"), Replace(procedure, "surgery", "procedure")} ELSE {})
    \cup (IF Contains(procedure, "knee") THEN {"knee replacement", "knee arthroscopy", "knee joint"} ELSE {})
    \cup (IF Contains(procedure, "heart") THEN {"cardiac", "cardiovascular", "coronary"} ELSE {})

\* the ranked passages of section type benefit or coverage whose text holds
\* the procedure or one of its variations, in rank order
CoveringPassages ==
    SelectSeq(search_results, LAMBDA result :
        /\ result.section_type \in {"benefit", "coverage"}
        /\ ProcedureOf(entities) # ""
        /\ \E term \in VariationsOf(ProcedureOf(entities)) : Contains(Lower(result.text), term))

\* C25: coverage_found is true exactly when a procedure entity is present and
\* at least one passage with section_type benefit or coverage contains the
\* procedure string or one of its fixed lexical variations (surgery read as
\* operation, knee as knee replacement or knee arthroscopy, heart as cardiac
\* or coronary, among others); every such matching passage contributes one
\* evidence clause with its first 200 characters, source filename and section
\* label.
C25_CoverageFoundAndEvidence ==
    Analysed =>
        \A covering \in {CoveringPassages} :
            /\ Factors.coverage_analysis.coverage_found <=> covering # <<>>
            /\ ~HasKey(entities, "procedure") => ~Factors.coverage_analysis.coverage_found
            /\ Factors.coverage_analysis.supporting_clauses
                  = [k \in 1..Len(covering) |->
                        [type |-> "coverage",
                         text |-> SubSeq(covering[k].text, 1, Min(200, Len(covering[k].text))) \o "...",
                         source |-> covering[k].filename,
                         section |-> covering[k].section_type]]

\* two clauses that name the procedure by a variation only, one of them
\* longer than 200 characters: two evidence clauses, the long one cut
C25_Witness ==
    /\ Analysed
    /\ search_results = <<CoverageCoronary, BenefitCardiac>>
    /\ ProcedureOf(entities) = "heart surgery"
    /\ ~Contains(Lower(CoverageCoronary.text), "heart surgery")
    /\ Factors.coverage_analysis.coverage_found
    /\ Len(Factors.coverage_analysis.supporting_clauses) = 2
    /\ Len(Factors.coverage_analysis.supporting_clauses[1].text) = 203
    /\ Len(CoverageCoronary.text) > 200

\* the passage is read for amounts: its section type is benefit, limitation
\* or financial, and its text holds the procedure when one is given
ReadForAmounts(ents, result) ==
    /\ result.section_type \in {"benefit", "limitation", "financial"}
    /\ ProcedureOf(ents) = "" \/ Contains(Lower(result.text), ProcedureOf(ents))

\* the amounts matched in the passages read for amounts, in rank order
MatchedAmounts ==
    Flatten([k \in 1..Len(search_results) |->
                IF ReadForAmounts(entities, search_results[k])
                THEN Listed([j \in 1..Len(AmountsFrom(Lower(search_results[k].text))) |->
                                ParseAmount(AmountsFrom(Lower(search_results[k].text))[j])])
                ELSE <<>>],
            1, Len(search_results))

\* C26: the benefit amount is the maximum monetary amount matched in passages
\* of section_type benefit, limitation or financial whose text contains the
\* procedure (or in any such passage when no procedure is given), and 0 when
\* there is none; every matched amount is recorded as a sub-limit entry.
C26_BenefitAmountIsMaximum ==
    Analysed =>
        \A matched \in {MatchedAmounts} :
            \A calc \in {Factors.benefit_calculation} :
                /\ matched = <<>> => calc.amount = 0
                /\ matched # <<>> =>
                      /\ \E j \in 1..Len(matched) : calc.amount = matched[j]
                      /\ \A j \in 1..Len(matched) : calc.amount >= matched[j]
                /\ Len(calc.sub_limits) = Len(matched)
                /\ \A j \in 1..Len(matched) :
                      /\ calc.sub_limits[j].limit = matched[j]
                      /\ calc.sub_limits[j].procedure
                            = (IF ProcedureOf(entities) # "" THEN ProcedureOf(entities) ELSE "general")

\* a benefit clause with the amounts 40,000 and 1,20,000 that names the
\* procedure, and a financial clause that does not: the larger amount of the
\* first, two sub-limits, the second clause not read
C26_Witness ==
    /\ Analysed
    /\ search_results = <<BenefitCardiac, FinancialAmbulance>>
    /\ ProcedureOf(entities) = "heart surgery"
    /\ Factors.benefit_calculation.amount = Rupees(120000)
    /\ Len(Factors.benefit_calculation.sub_limits) = 2
    /\ Factors.benefit_calculation.sub_limits[1].limit = Rupees(40000)

\* no procedure is given: the amount of the financial clause counts
C26_NoProcedure ==
    /\ Analysed
    /\ search_results = <<FinancialAmbulance>>
    /\ ProcedureOf(entities) = ""
    /\ Factors.benefit_calculation.amount = Rupees(2000)

(***************************************************************************)
(* Properties of _calculate_decision_confidence                            *)
(***************************************************************************)

\* the similarity scores of the ranked passages
Similarities == [k \in 1..Len(search_results) |-> search_results[k].similarity_score]

\* the mean of the scores is above the level (both in hundredths); the mean
\* of no score is 0
MeanAbove(scores, level) == scores # <<>> /\ SumScores(search_results, 1) > level * Len(scores)

\* the terms of the confidence, in hundredths
ConfidenceTerms ==
    << 60,
       IF Factors.exclusion_check.excluded /\ Factors.exclusion_check.supporting_clauses # <<>> THEN 20 ELSE 0,
       IF Factors.coverage_analysis.coverage_found /\ Factors.coverage_analysis.supporting_clauses # <<>>
       THEN 15 ELSE 0,
       IF Factors.waiting_period_check.applicable /\ ~Factors.waiting_period_check.satisfied THEN 15 ELSE 0,
       IF MeanAbove(Similarities, 80) THEN 10 ELSE IF MeanAbove(Similarities, 60) THEN 5 ELSE 0 >>

\* C27: for every decision that is not ERROR, confidence = min(1.0, 0.6
\* + 0.2 if excluded with supporting evidence + 0.15 if coverage found with
\* supporting evidence + 0.15 if a waiting period is applicable and
\* unsatisfied + (0.1 if the mean passage similarity > 0.8, else 0.05 if
\* > 0.6)), whichever priority branch fired; it always lies in [0.6, 1.0].
C27_DecisionConfidence ==
    (Decided /\ decision.value.decision # "ERROR") =>
        \A terms \in {ConfidenceTerms} :
            /\ decision.value.confidence
                  = Min(100, terms[1] + terms[2] + terms[3] + terms[4] + terms[5])
            /\ decision.value.confidence \in 60..100

\* excluded with evidence, coverage found, high mean similarity: the sum is
\* 1.05 and the confidence 1.0
C27_Witness ==
    /\ Decided
    /\ decision.value.decision = "REJECTED"
    /\ Factors.exclusion_check.excluded /\ Factors.exclusion_check.supporting_clauses # <<>>
    /\ Factors.coverage_analysis.coverage_found
    /\ MeanAbove(Similarities, 80)
    /\ decision.value.confidence = 100

(***************************************************************************)
(* Properties of the pipeline on an empty passage list                     *)
(***************************************************************************)

\* make_decision has returned to process_query
DecisionMade == pc \in {"decided", "done"} /\ decision # NoOutcome

\* C28: when the ranker hands the engine an empty passage list (both
\* retrieval paths failed, the search raised, or nothing reached the
\* threshold), make_decision returns REJECTED with amount 0, the "procedure
\* not covered" reason and confidence exactly 0.6, not ERROR or NEEDS_REVIEW,
\* whatever entities were extracted.
C28_EmptyListRejected ==
    /\ (pc \in {"ranked", "decided", "done"} /\ env.db = "raises") => search_results = <<>>
    /\ (DecisionMade /\ search_results = <<>>) =>
          /\ ~decision.raised
          /\ decision.value.decision = "REJECTED"
          /\ decision.value.amount = 0
          /\ decision.value.justification.primary_reason = "Procedure not covered under policy"
          /\ decision.value.confidence = 60

\* both retrieval paths failed on a query with an age, a procedure and a
\* policy duration, over a corpus that holds a benefit clause
C28_Witness ==
    /\ DecisionMade
    /\ env.db = "raises"
    /\ env.corpus # <<>>
    /\ {"age", "procedure", "policy_duration"} \subseteq DOMAIN entities
    /\ search_results = <<>>
    /\ decision.value.decision = "REJECTED"
    /\ decision.value.confidence = 60

\* nothing reached the threshold although the store answered
C28_NothingReachedThreshold ==
    /\ DecisionMade
    /\ env.db = "ok"
    /\ env.corpus # <<>>
    /\ ~env.query_embedding.zero
    /\ search_results = <<>>
    /\ decision.value.decision = "REJECTED"

(***************************************************************************)
(* Properties of _extract_procedure and _classify_intent                   *)
(***************************************************************************)

\* the places in the vocabulary of the terms that occur in the normalized text
OccurringTerms ==
    {k \in 1..Len(medical_terms) : Contains(parsed.value.normalized_query, medical_terms[k])}

\* the k-th term is a longest of the occurring terms, and the first of them
\* in the vocabulary
FirstOfLongest(k, occurring) ==
    \A j \in occurring :
        \/ Len(medical_terms[j]) < Len(medical_terms[k])
        \/ Len(medical_terms[j]) = Len(medical_terms[k]) /\ k <= j

\* C29: procedure extraction returns the longest vocabulary term that occurs
\* in the query, ties broken by first occurrence in the vocabulary list (so
\* "knee surgery" wins over "surgery"), and no procedure entity when no
\* vocabulary term occurs.
C29_LongestVocabularyTerm ==
    Parsed =>
        \A occurring \in {OccurringTerms} :
            /\ occurring = {} => ~HasKey(parsed.value.entities, "procedure")
            /\ occurring # {} =>
                  /\ HasKey(parsed.value.entities, "procedure")
                  /\ \E k \in occurring :
                        /\ parsed.value.entities["procedure"] = medical_terms[k]
                        /\ FirstOfLongest(k, occurring)

\* "surgery", "procedure" and "treatment" occur: the two longest are equally
\* long and the one listed first is returned
C29_Witness ==
    /\ Parsed
    /\ Contains(query, "surgery treatment condition procedure")
    /\ Cardinality(OccurringTerms) = 3
    /\ parsed.value.entities["procedure"] = "procedure"

\* "knee surgery" wins over "surgery"
C29_KneeSurgery ==
    /\ Parsed
    /\ query = StatedQuery
    /\ Cardinality(OccurringTerms) = 2
    /\ parsed.value.entities["procedure"] = "knee surgery"

\* the number of keywords of the k-th intent that occur in the normalized text
KeywordCount(k) ==
    Cardinality({j \in 1..Len(intent_keywords[k].keywords) :
                    Contains(parsed.value.normalized_query, intent_keywords[k].keywords[j])})

\* the intents with the highest count
TopIntents ==
    {k \in 1..Len(intent_keywords) : \A j \in 1..Len(intent_keywords) : KeywordCount(j) <= KeywordCount(k)}

\* C30: intent classification returns the intent, among the 7 fixed intents,
\* with the highest count of its keywords found in the normalized text, ties
\* broken by declaration order, and general_inquiry when every count is 0.
C30_IntentByKeywordCount ==
    Parsed =>
        /\ Len(intent_keywords) = 7
        /\ \E k \in 1..Len(intent_keywords) : parsed.value.intent = intent_keywords[k].intent
        /\ (\A k \in 1..Len(intent_keywords) : KeywordCount(k) = 0) => parsed.value.intent = "general_inquiry"
        /\ (\E k \in 1..Len(intent_keywords) : KeywordCount(k) > 0) =>
              parsed.value.intent = intent_keywords[Least(TopIntents)].intent

\* "premium", "policy" and "what" occur once each: three intents tie and the
\* one declared first is returned
C30_Witness ==
    /\ Parsed
    /\ query = "what is the premium for a policy of 2 years"
    /\ Cardinality(TopIntents) = 3
    /\ KeywordCount(Least(TopIntents)) = 1
    /\ parsed.value.intent = "premium_inquiry"

====
